---- MODULE Spec2Model ----
(***************************************************************************)
(* A model of proto-gen: the diff/commit engine of run_generation          *)
(* (src/proto-gen/src/gen.rs), the package tree synthesis and              *)
(* materialisation of clean_up_file_structure (gen.rs) and the older       *)
(* ModuleContainer tree of src/proto-gen/src/lib.rs.                       *)
(*                                                                         *)
(* Strings are sequences of one-character strings, so that starts_with,    *)
(* split_once, rsplit_once and lines() are computed, not assumed.  A path  *)
(* is the sequence of its components.  The file system is the pair         *)
(* (files, dirs): files maps the path of every regular file to its bytes,  *)
(* dirs is the set of the paths of the directories.                        *)
(***************************************************************************)
EXTENDS Integers, Sequences, FiniteSets, TLC

VARIABLES
  files,        \* file system: path of a regular file -> its content
  dirs,         \* file system: the set of directory paths
  pc,           \* position of the run inside run_generation / clean_up_file_structure
  commit,       \* gen_opts.commit of the current run
  top_mod,      \* top_mod_content: the top-level index text of the candidate tree
  orig_files,   \* run_diff: the HashSet orig_files
  new_iter,     \* run_diff: what for file in &new_files has not visited yet
  diff,         \* run_diff: the counter diff
  toCopy,       \* recurse_copy_over: entries of the source tree not copied yet
  result,       \* what run_generation returned
  run,          \* number of the current invocation of the command
  committed,    \* TRUE when the previous invocation ended with a successful commit
  tree,         \* clean_up_file_structure: out_modules, key of a node -> the node
  rd,           \* clean_up_file_structure: entries the ReadDir iterator still holds
  gen_opts,     \* gen_opts.prepend_header and gen_opts.toplevel_attribute
  gen0,         \* what the schema compiler wrote: file name -> content
  arg,          \* the arguments of a function called on its own
  ret           \* what that function returned

\* the state of the diff and commit engine, and of tree synthesis
runVars == <<commit, orig_files, new_iter, diff, toCopy, run, committed>>
synthVars == <<tree, rd, gen_opts, gen0>>
\* the call of a single function
pureVars == <<arg, ret>>

vars == <<files, dirs, pc, commit, top_mod, orig_files, new_iter, diff, toCopy,
          result, run, committed, tree, rd, gen_opts, gen0, arg, ret>>

----------------------------------------------------------------------------
(* Bounds *)

\* most regular files in the old tree and in the candidate tree at the start
MaxFiles == 2

\* most invocations of the command in one behaviour
MaxRuns == 2

----------------------------------------------------------------------------
(* Strings and paths *)

StartsWith(s, p) == Len(s) >= Len(p) /\ SubSeq(s, 1, Len(p)) = p

FileName(path) == path[Len(path)]

Parent(path) == SubSeq(path, 1, Len(path) - 1)

IsUnder(path, dir) == Len(path) > Len(dir) /\ SubSeq(path, 1, Len(dir)) = dir

\* the names used in the bounded file systems
RsExt == <<".", "r", "s">>
NmB == <<"b">>
NmC == <<"c">>
NmOB == <<"o", "b">>
NmD == <<"d">>
NmOD == <<"o", "d">>

\* proto_ws.output_dir and proto_ws.tmp_dir
OldRoot == << <<"w">>, <<"o">> >>
NewRoot == << <<"v">>, <<"t">> >>

\* relative paths a regular file may have below either root
RelPaths == { <<NmB>>, <<NmC>>, <<NmOB>>, <<NmD, NmB>>, <<NmOD, NmB>> }

Contents == { <<"x">>, <<"y">> }

\* <output_dir's parent>/<output_dir's name>.rs
ModFile(root) == Parent(root) \o << FileName(root) \o RsExt >>

----------------------------------------------------------------------------
(* gen.rs: path_from_starts_with, collect_files *)

\* the loop over components().rev(): the index of the last component that
\* starts with root, 0 when there is none
RECURSIVE ScanBack(_, _, _)
ScanBack(root, path, i) ==
  IF i = 0 THEN 0
  ELSE IF StartsWith(path[i], root) THEN i
  ELSE ScanBack(root, path, i - 1)

\* mutant of path_from_starts_with: without the marker the whole path is
\* returned
path_from_starts_with_or_whole(root, path) ==
  LET i == ScanBack(root, path, Len(path))
  IN  [ok |-> TRUE, path |-> SubSeq(path, i + 1, Len(path))]

path_from_starts_with(root, path) ==
  LET i == ScanBack(root, path, Len(path))
  IN  IF i = 0
      THEN [ok |-> FALSE, path |-> <<>>]
      ELSE [ok |-> TRUE, path |-> SubSeq(path, i + 1, Len(path))]

\* fs::read_dir: the entries directly inside dir
ReadDir(f, d, dir) ==
  { p \in (DOMAIN f) \cup d : Len(p) = Len(dir) + 1 /\ Parent(p) = dir }

\* fs::read
ReadFile(f, path) ==
  IF path \in DOMAIN f
  THEN [ok |-> TRUE, content |-> f[path]]
  ELSE [ok |-> FALSE, content |-> <<>>]

RECURSIVE collect_files(_, _, _, _)
collect_files(f, d, source, root) ==
  IF source \in DOMAIN f THEN [ok |-> FALSE, set |-> {}]
  ELSE IF source \notin d THEN [ok |-> TRUE, set |-> {}]
  ELSE
    LET sub(e) == IF e \in DOMAIN f
                  THEN LET pb == path_from_starts_with(root, e)
                       IN  [ok |-> pb.ok, set |-> {pb.path}]
                  ELSE collect_files(f, d, e, root)
        subs == { sub(e) : e \in ReadDir(f, d, source) }
    IN  [ok |-> \A s \in subs : s.ok, set |-> UNION { s.set : s \in subs }]

----------------------------------------------------------------------------
(* Results of run_generation, and the exit code of the command *)

NoResult == [set |-> FALSE, ok |-> FALSE, why |-> "none", diffs |-> 0]
OkResult == [set |-> TRUE, ok |-> TRUE, why |-> "ok", diffs |-> 0]
IoError == [set |-> TRUE, ok |-> FALSE, why |-> "io", diffs |-> 0]
DiffFound(n) == [set |-> TRUE, ok |-> FALSE, why |-> "diff", diffs |-> n]

\* main.rs run_with_opts: Err(1) on any error of run_ws, Ok(()) otherwise
ExitCode(r) == IF r.ok THEN 0 ELSE 1

----------------------------------------------------------------------------
(* gen.rs: run_diff, one step per iteration of its loops *)

Fail ==
  /\ pc' = "done"
  /\ result' = IoError

RunDiffBegin ==
  /\ pc = "start"
  /\ LET o == collect_files(files, dirs, OldRoot, FileName(OldRoot))
         n == collect_files(files, dirs, NewRoot, FileName(NewRoot))
     IN  IF o.ok /\ n.ok
         THEN /\ orig_files' = o.set
              /\ new_iter' = n.set
              /\ diff' = 0
              /\ pc' = "loop"
              /\ UNCHANGED result
         ELSE /\ Fail
              /\ UNCHANGED <<orig_files, new_iter, diff>>
  /\ UNCHANGED <<files, dirs, commit, top_mod, toCopy, run, committed>>
  /\ UNCHANGED synthVars
  /\ UNCHANGED pureVars

\* one iteration of for file in &new_files, in any order of the HashSet
DiffVisit(file) ==
  IF file \in orig_files
  THEN LET a == ReadFile(files, OldRoot \o file)
           b == ReadFile(files, NewRoot \o file)
       IN  IF a.ok /\ b.ok
           THEN /\ orig_files' = orig_files \ {file}
                /\ new_iter' = new_iter \ {file}
                /\ diff' = IF a.content # b.content THEN diff + 1 ELSE diff
                /\ UNCHANGED <<pc, result>>
           ELSE /\ Fail
                /\ UNCHANGED <<orig_files, new_iter, diff>>
  ELSE /\ new_iter' = new_iter \ {file}
       /\ diff' = diff + 1
       /\ UNCHANGED <<orig_files, pc, result>>

DiffLoop ==
  /\ pc = "loop"
  /\ \E file \in new_iter : DiffVisit(file)
  /\ UNCHANGED <<files, dirs, commit, top_mod, toCopy, run, committed>>
  /\ UNCHANGED synthVars
  /\ UNCHANGED pureVars

\* mutant of DiffIndexCount: a missing index file is not counted
DiffIndexCountMissingIgnored(f, d_old, text) ==
  LET r == ReadFile(f, ModFile(OldRoot))
  IN  IF r.ok /\ r.content # text THEN d_old + 1 ELSE d_old

\* the match on fs::read(&old_top_mod_path)
DiffIndexCount(f, d_old, text) ==
  LET r == ReadFile(f, ModFile(OldRoot))
  IN  IF r.ok
      THEN (IF r.content # text THEN d_old + 1 ELSE d_old)
      ELSE d_old + 1

DiffIndex ==
  /\ pc = "loop"
  /\ new_iter = {}
  /\ IF ModFile(OldRoot) \in dirs
     THEN Fail /\ UNCHANGED diff
     ELSE /\ diff' = DiffIndexCount(files, diff, top_mod)
          /\ pc' = "rest"
          /\ UNCHANGED result
  /\ UNCHANGED <<files, dirs, commit, top_mod, orig_files, new_iter, toCopy,
                 run, committed>>
  /\ UNCHANGED synthVars
  /\ UNCHANGED pureVars

\* for _ in orig_files { diff += 1 } and Ok(diff)
DiffRest ==
  /\ pc = "rest"
  /\ diff' = diff + Cardinality(orig_files)
  /\ orig_files' = {}
  /\ pc' = "decide"
  /\ UNCHANGED <<files, dirs, commit, top_mod, new_iter, toCopy, result, run,
                 committed>>
  /\ UNCHANGED synthVars
  /\ UNCHANGED pureVars

----------------------------------------------------------------------------
(* gen.rs: run_generation after run_diff has returned Ok(diff) *)

\* mutant of Decide: the commit flag is not consulted
DecideAlwaysCommits ==
  /\ pc = "decide"
  /\ IF diff > 0
     THEN pc' = "clean" /\ UNCHANGED result
     ELSE pc' = "done" /\ result' = OkResult
  /\ UNCHANGED <<files, dirs, commit, top_mod, orig_files, new_iter, diff,
                 toCopy, run, committed>>
  /\ UNCHANGED synthVars
  /\ UNCHANGED pureVars

\* mutant of Decide: a found diff is reported but the run returns Ok(())
DecideNeverFails ==
  /\ pc = "decide"
  /\ IF diff > 0 /\ commit
     THEN pc' = "clean" /\ UNCHANGED result
     ELSE pc' = "done" /\ result' = OkResult
  /\ UNCHANGED <<files, dirs, commit, top_mod, orig_files, new_iter, diff,
                 toCopy, run, committed>>
  /\ UNCHANGED synthVars
  /\ UNCHANGED pureVars

Decide ==
  /\ pc = "decide"
  /\ IF diff > 0
     THEN IF commit
          THEN pc' = "clean" /\ UNCHANGED result
          ELSE pc' = "done" /\ result' = DiffFound(diff)
     ELSE pc' = "done" /\ result' = OkResult
  /\ UNCHANGED <<files, dirs, commit, top_mod, orig_files, new_iter, diff,
                 toCopy, run, committed>>
  /\ UNCHANGED synthVars
  /\ UNCHANGED pureVars

----------------------------------------------------------------------------
(* gen.rs: recurse_copy_clean and recurse_copy_over *)

Restrict(f, D) == [p \in D |-> f[p]]

WriteFile(f, path, content) ==
  [p \in (DOMAIN f) \cup {path} |-> IF p = path THEN content ELSE f[p]]

\* fs::create_dir_all: the directory and every missing ancestor
Ancestors(path) == { SubSeq(path, 1, i) : i \in 1..Len(path) }

\* mutant of RemoveDirAllFiles: the old directory is not cleaned out
KeepAllFiles(f, dir) == f

\* fs::remove_dir_all
RemoveDirAllFiles(f, dir) == Restrict(f, { p \in DOMAIN f : ~IsUnder(p, dir) })
RemoveDirAllDirs(d, dir) == { p \in d : ~IsUnder(p, dir) /\ p # dir }

\* everything below the source directory, files and directories
Below(f, d, dir) == { p \in (DOMAIN f) \cup d : IsUnder(p, dir) }

\* dest_top.join(last_component), through the recursion of recurse_copy_over
DestOf(entry) == OldRoot \o SubSeq(entry, Len(NewRoot) + 1, Len(entry))

\* the part of recurse_copy_clean before its loop, when every call succeeds
CopyClean ==
  /\ pc = "clean"
  /\ files' = RemoveDirAllFiles(files, OldRoot)
  /\ dirs' = RemoveDirAllDirs(dirs, OldRoot) \cup Ancestors(OldRoot)
  /\ toCopy' = Below(files, dirs, NewRoot)
  /\ pc' = "copy"
  /\ UNCHANGED <<commit, top_mod, orig_files, new_iter, diff, result, run,
                 committed>>
  /\ UNCHANGED synthVars
  /\ UNCHANGED pureVars

\* fs::remove_dir_all fails part-way: some of the old files are already gone
CopyCleanRemoveFails ==
  /\ pc = "clean"
  /\ OldRoot \in dirs
  /\ \E gone \in SUBSET { p \in DOMAIN files : IsUnder(p, OldRoot) } :
       files' = Restrict(files, (DOMAIN files) \ gone)
  /\ Fail
  /\ UNCHANGED <<dirs, commit, top_mod, orig_files, new_iter, diff, toCopy,
                 run, committed>>
  /\ UNCHANGED synthVars
  /\ UNCHANGED pureVars

\* fs::create_dir fails after the old directory was removed
CopyCleanCreateFails ==
  /\ pc = "clean"
  /\ OldRoot \in dirs
  /\ files' = RemoveDirAllFiles(files, OldRoot)
  /\ dirs' = RemoveDirAllDirs(dirs, OldRoot)
  /\ Fail
  /\ UNCHANGED <<commit, top_mod, orig_files, new_iter, diff, toCopy, run,
                 committed>>
  /\ UNCHANGED synthVars
  /\ UNCHANGED pureVars

\* one call of recurse_copy_over: a directory is created before its entries
\* are visited, entries are visited in any order
CopyOver(entry) ==
  IF entry \in DOMAIN files
  THEN /\ files' = WriteFile(files, DestOf(entry), files[entry])
       /\ UNCHANGED dirs
  ELSE /\ dirs' = dirs \cup Ancestors(DestOf(entry))
       /\ UNCHANGED files

CopyStep ==
  /\ pc = "copy"
  /\ \E entry \in toCopy :
       /\ Parent(entry) \notin toCopy
       /\ CopyOver(entry)
       /\ toCopy' = toCopy \ {entry}
  /\ UNCHANGED <<pc, commit, top_mod, orig_files, new_iter, diff, result, run,
                 committed>>
  /\ UNCHANGED synthVars
  /\ UNCHANGED pureVars

\* mutant of CopyFails: what was copied so far is taken away again
CopyFailsRollsBack ==
  /\ pc = "copy"
  /\ toCopy # {}
  /\ Fail
  /\ files' = RemoveDirAllFiles(files, OldRoot)
  /\ UNCHANGED <<dirs, commit, top_mod, orig_files, new_iter, diff,
                 toCopy, run, committed>>
  /\ UNCHANGED synthVars
  /\ UNCHANGED pureVars

\* fs::copy or fs::create_dir_all fails: ? returns the error, nothing is undone
CopyFails ==
  /\ pc = "copy"
  /\ toCopy # {}
  /\ Fail
  /\ UNCHANGED <<files, dirs, commit, top_mod, orig_files, new_iter, diff,
                 toCopy, run, committed>>
  /\ UNCHANGED synthVars
  /\ UNCHANGED pureVars

\* recurse_copy_clean returns Ok(())
CopyReturn ==
  /\ pc = "copy"
  /\ toCopy = {}
  /\ pc' = "write"
  /\ UNCHANGED <<files, dirs, commit, top_mod, orig_files, new_iter, diff,
                 toCopy, result, run, committed>>
  /\ UNCHANGED synthVars
  /\ UNCHANGED pureVars

\* fs::write(&mod_file, top_mod_content) and Ok(())
WriteIndex ==
  /\ pc = "write"
  /\ files' = WriteFile(files, ModFile(OldRoot), top_mod)
  /\ pc' = "done"
  /\ result' = OkResult
  /\ UNCHANGED <<dirs, commit, top_mod, orig_files, new_iter, diff, toCopy,
                 run, committed>>
  /\ UNCHANGED synthVars
  /\ UNCHANGED pureVars

WriteIndexFails ==
  /\ pc = "write"
  /\ Fail
  /\ UNCHANGED <<files, dirs, commit, top_mod, orig_files, new_iter, diff,
                 toCopy, run, committed>>
  /\ UNCHANGED synthVars
  /\ UNCHANGED pureVars

----------------------------------------------------------------------------
(* The command is invoked again on the same workspace: the schema compiler *)
(* produces the same candidate tree and index text                         *)

Committed == pc = "done" /\ result.ok /\ commit /\ diff > 0

NextRun ==
  /\ pc = "done"
  /\ run < MaxRuns
  /\ run' = run + 1
  /\ committed' = Committed
  /\ commit' \in BOOLEAN
  /\ pc' = "start"
  /\ result' = NoResult
  /\ diff' = 0
  /\ orig_files' = {}
  /\ new_iter' = {}
  /\ toCopy' = {}
  /\ UNCHANGED <<files, dirs, top_mod>>
  /\ UNCHANGED synthVars
  /\ UNCHANGED pureVars

----------------------------------------------------------------------------
(* Initial states: an old tree, a candidate tree, an old index file or none *)

Trees ==
  UNION { [D -> Contents] :
            D \in { S \in SUBSET RelPaths : Cardinality(S) <= MaxFiles } }

Rel(path, root) == SubSeq(path, Len(root) + 1, Len(path))

InitFiles(fo, fn, hasIdx, idx) ==
  [ q \in { OldRoot \o p : p \in DOMAIN fo } \cup { NewRoot \o p : p \in DOMAIN fn }
          \cup (IF hasIdx THEN { ModFile(OldRoot) } ELSE {})
    |-> IF IsUnder(q, OldRoot) THEN fo[Rel(q, OldRoot)]
        ELSE IF IsUnder(q, NewRoot) THEN fn[Rel(q, NewRoot)]
        ELSE idx ]

InitDirs(f, oldExists) ==
  { Parent(OldRoot), NewRoot } \cup Ancestors(NewRoot)
    \cup (IF oldExists THEN { OldRoot } ELSE {})
    \cup UNION { Ancestors(Parent(p)) : p \in DOMAIN f }

Init ==
  /\ \E fo \in Trees, fn \in Trees, hasIdx \in BOOLEAN, idx \in Contents,
        oldExists \in BOOLEAN :
       /\ hasIdx \/ idx = <<"x">>
       /\ oldExists \/ DOMAIN fo = {}
       /\ files = InitFiles(fo, fn, hasIdx, idx)
       /\ dirs = InitDirs(files, oldExists \/ DOMAIN fo # {})
  /\ top_mod = <<"x">>
  /\ commit \in BOOLEAN
  /\ pc = "start"
  /\ orig_files = {}
  /\ new_iter = {}
  /\ diff = 0
  /\ toCopy = {}
  /\ result = NoResult
  /\ run = 1
  /\ committed = FALSE
  /\ tree = <<>>
  /\ rd = {}
  /\ gen_opts = [prepend_header |-> <<>>, toplevel_attribute |-> <<>>]
  /\ gen0 = <<>>
  /\ arg = <<>>
  /\ ret = <<>>

Next ==
  \/ RunDiffBegin
  \/ DiffLoop
  \/ DiffIndex
  \/ DiffRest
  \/ Decide
  \/ CopyClean
  \/ CopyCleanRemoveFails
  \/ CopyCleanCreateFails
  \/ CopyStep
  \/ CopyFails
  \/ CopyReturn
  \/ WriteIndex
  \/ WriteIndexFails
  \/ NextRun

Spec == Init /\ [][Next]_vars

----------------------------------------------------------------------------
(* Text: str::split_once, rsplit_once, ends_with, lines, cmp *)

\* the position of the first occurrence of pat in s at or after i, 0 if none
RECURSIVE FindFrom(_, _, _)
FindFrom(s, pat, i) ==
  IF i + Len(pat) - 1 > Len(s) THEN 0
  ELSE IF SubSeq(s, i, i + Len(pat) - 1) = pat THEN i
  ELSE FindFrom(s, pat, i + 1)

\* the position of the last occurrence of pat in s at or before i, 0 if none
RECURSIVE FindBack(_, _, _)
FindBack(s, pat, i) ==
  IF i < 1 THEN 0
  ELSE IF i + Len(pat) - 1 <= Len(s) /\ SubSeq(s, i, i + Len(pat) - 1) = pat THEN i
  ELSE FindBack(s, pat, i - 1)

\* str::split_once and str::rsplit_once: None is found = FALSE
SplitAt(s, pat, i) ==
  IF i = 0
  THEN [found |-> FALSE, head |-> s, tail |-> <<>>]
  ELSE [found |-> TRUE, head |-> SubSeq(s, 1, i - 1),
        tail |-> SubSeq(s, i + Len(pat), Len(s))]

split_once(s, pat) == SplitAt(s, pat, FindFrom(s, pat, 1))

rsplit_once(s, pat) == SplitAt(s, pat, FindBack(s, pat, Len(s)))

EndsWith(s, suf) ==
  Len(s) >= Len(suf) /\ SubSeq(s, Len(s) - Len(suf) + 1, Len(s)) = suf

IsSuffix(suf, s) == EndsWith(s, suf)

\* str::lines: split at "\n", a "\r" right before it is dropped, and a last
\* line without line ending is a line
RECURSIVE Lines(_)
Lines(s) ==
  IF s = <<>> THEN <<>>
  ELSE LET i == FindFrom(s, <<"\n">>, 1)
           raw == IF i = 0 THEN s ELSE SubSeq(s, 1, i - 1)
           line == IF i # 0 /\ EndsWith(raw, <<"\r">>)
                   THEN SubSeq(raw, 1, Len(raw) - 1) ELSE raw
       IN  IF i = 0 THEN << line >>
           ELSE << line >> \o Lines(SubSeq(s, i + 1, Len(s)))

\* char::is_whitespace, on the characters the model uses
IsWhitespace(c) == c \in {" ", "\t", "\n", "\r"}

\* the byte value of a character, for the byte-wise order of str::cmp
Ascii(c) ==
  CASE c = "\t" -> 9 [] c = "\n" -> 10 [] c = "\r" -> 13 [] c = " " -> 32
    [] c = "!" -> 33 [] c = "#" -> 35 [] c = "(" -> 40 [] c = ")" -> 41
    [] c = "," -> 44 [] c = "." -> 46 [] c = "/" -> 47 [] c = ":" -> 58
    [] c = ";" -> 59 [] c = "[" -> 91 [] c = "]" -> 93 [] c = "_" -> 95
    [] c = "^" -> 96 [] c = "a" -> 97 [] c = "b" -> 98 [] c = "c" -> 99
    [] c = "d" -> 100 [] c = "e" -> 101 [] c = "f" -> 102 [] c = "g" -> 103
    [] c = "h" -> 104 [] c = "i" -> 105 [] c = "k" -> 107 [] c = "l" -> 108
    [] c = "m" -> 109 [] c = "n" -> 110 [] c = "o" -> 111 [] c = "p" -> 112
    [] c = "q" -> 113 [] c = "r" -> 114 [] c = "s" -> 115 [] c = "t" -> 116
    [] c = "u" -> 117 [] c = "v" -> 118 [] c = "w" -> 119 [] c = "x" -> 120
    [] c = "y" -> 121 [] c = "z" -> 122

\* a < b in the order of str::cmp
RECURSIVE StrLess(_, _)
StrLess(a, b) ==
  IF b = <<>> THEN FALSE
  ELSE IF a = <<>> THEN TRUE
  ELSE IF a[1] # b[1] THEN Ascii(a[1]) < Ascii(b[1])
  ELSE StrLess(Tail(a), Tail(b))

\* mutant of SortByName: the greatest name comes first
RECURSIVE SortByNameDescending(_)
SortByNameDescending(keys) ==
  IF keys = {} THEN <<>>
  ELSE LET greatest == CHOOSE k \in keys :
                         \A o \in keys \ {k} : StrLess(FileName(o), FileName(k))
       IN  << greatest >> \o SortByNameDescending(keys \ {greatest})

\* sort_by(|a, b| a.get_name().cmp(b.get_name())) on tree nodes given by their
\* keys, the name of a node being the last element of its key
RECURSIVE SortByName(_)
SortByName(keys) ==
  IF keys = {} THEN <<>>
  ELSE LET least == CHOOSE k \in keys :
                      \A o \in keys \ {k} : StrLess(FileName(k), FileName(o))
       IN  << least >> \o SortByName(keys \ {least})

RECURSIVE Concat(_)
Concat(seqs) == IF seqs = <<>> THEN <<>> ELSE Head(seqs) \o Concat(Tail(seqs))

----------------------------------------------------------------------------
(* gen.rs: hide_doctests and prepend_header *)

\* the backtick, written "^" here because a TLA+ string cannot hold one
Tick == "^"

Fence == <<Tick, Tick, Tick>>
DocMarker == <<"/", "/", "/">>
IgnoreOpen == <<"/", "/", "/", Tick, Tick, Tick, "i", "g", "n", "o", "r", "e", "\n">>
IgnoreClose == <<"/", "/", "/", Tick, Tick, Tick, "\n">>
IgnoreWord == <<"i", "g", "n", "o", "r", "e">>

\* mutant of Hostile: three whitespace characters are enough
HostileThree(rest) == Len(rest) >= 3 /\ \A i \in 1..3 : IsWhitespace(rest[i])

\* rest.len() >= 4 && rest.chars().take(4).all(char::is_whitespace)
Hostile(rest) == Len(rest) >= 4 /\ \A i \in 1..4 : IsWhitespace(rest[i])

\* mutant of HideLine: the opening fence is injected before every indented
\* line, not only the first of a run
HideLineReopens(st, line) ==
  IF EndsWith(line, Fence) /\ ~st.block
  THEN [block |-> TRUE, code |-> st.code,
        out |-> st.out \o line \o IgnoreWord \o <<"\n">>]
  ELSE
    LET block == IF EndsWith(line, Fence) THEN FALSE ELSE st.block
        doc == split_once(line, DocMarker)
        opens == ~block /\ doc.found /\ Hostile(doc.tail)
        closes == ~block /\ st.code /\ ~(doc.found /\ Hostile(doc.tail))
    IN  [block |-> block,
         code |-> IF opens THEN TRUE ELSE IF closes THEN FALSE ELSE st.code,
         out |-> st.out \o (IF opens THEN IgnoreOpen
                            ELSE IF closes THEN IgnoreClose ELSE <<>>)
                        \o line \o <<"\n">>]

\* mutant of HideLine: every line ending in a fence is written with the
\* word ignore appended, the closing one too
HideLineIgnoresEveryFence(st, line) ==
  IF EndsWith(line, Fence)
  THEN [block |-> ~st.block, code |-> st.code,
        out |-> st.out \o line \o IgnoreWord \o <<"\n">>]
  ELSE
    LET block == st.block
        doc == split_once(line, DocMarker)
        opens == ~block /\ doc.found /\ Hostile(doc.tail) /\ ~st.code
        closes == ~block /\ st.code /\ ~(doc.found /\ Hostile(doc.tail))
    IN  [block |-> block,
         code |-> IF opens THEN TRUE ELSE IF closes THEN FALSE ELSE st.code,
         out |-> st.out \o (IF opens THEN IgnoreOpen
                            ELSE IF closes THEN IgnoreClose ELSE <<>>)
                        \o line \o <<"\n">>]

\* mutant of HideLine: a line without characters is not written
HideLineDropsBlank(st, line) ==
  IF line = <<>> THEN st
  ELSE IF EndsWith(line, Fence) /\ ~st.block
  THEN [block |-> TRUE, code |-> st.code,
        out |-> st.out \o line \o IgnoreWord \o <<"\n">>]
  ELSE
    LET block == IF EndsWith(line, Fence) THEN FALSE ELSE st.block
        doc == split_once(line, DocMarker)
        opens == ~block /\ doc.found /\ Hostile(doc.tail) /\ ~st.code
        closes == ~block /\ st.code /\ ~(doc.found /\ Hostile(doc.tail))
    IN  [block |-> block,
         code |-> IF opens THEN TRUE ELSE IF closes THEN FALSE ELSE st.code,
         out |-> st.out \o (IF opens THEN IgnoreOpen
                            ELSE IF closes THEN IgnoreClose ELSE <<>>)
                        \o line \o <<"\n">>]

\* one iteration of the loop of hide_doctests on the state
\* st = [block: in_multiline_codeblock, code: in_potentially_hostile_code,
\*       out: new_content]
HideLine(st, line) ==
  IF EndsWith(line, Fence) /\ ~st.block
  THEN [block |-> TRUE, code |-> st.code,
        out |-> st.out \o line \o IgnoreWord \o <<"\n">>]
  ELSE
    LET block == IF EndsWith(line, Fence) THEN FALSE ELSE st.block
        doc == split_once(line, DocMarker)
        opens == ~block /\ doc.found /\ Hostile(doc.tail) /\ ~st.code
        closes == ~block /\ st.code /\ ~(doc.found /\ Hostile(doc.tail))
    IN  [block |-> block,
         code |-> IF opens THEN TRUE ELSE IF closes THEN FALSE ELSE st.code,
         out |-> st.out \o (IF opens THEN IgnoreOpen
                            ELSE IF closes THEN IgnoreClose ELSE <<>>)
                        \o line \o <<"\n">>]

RECURSIVE HideLines(_, _)
HideLines(st, lines) ==
  IF lines = <<>> THEN st ELSE HideLines(HideLine(st, Head(lines)), Tail(lines))

hide_doctests(content) ==
  HideLines([block |-> FALSE, code |-> FALSE, out |-> <<>>], Lines(content)).out

\* Option<String> is a sequence of no or one string
None == <<>>
Some(x) == << x >>

prepend_header(maybe_prepend_header, clean_content) ==
  IF maybe_prepend_header = None THEN clean_content
  ELSE maybe_prepend_header[1] \o clean_content

\* format_args!("pub mod {};\n", name)
PubMod(name) == <<"p", "u", "b", " ", "m", "o", "d", " ">> \o name \o <<";", "\n">>

AllowLine ==
  <<"#", "!", "[", "a", "l", "l", "o", "w", "(", "c", "l", "i", "p", "p", "y", ":", ":", "d", "o", "c", "_", "m", "a", "r", "k", "d", "o", "w", "n", ",", " ", "c", "l", "i", "p", "p", "y", ":", ":", "u", "s", "e", "_", "s", "e", "l", "f", ")", "]", "\n">>

----------------------------------------------------------------------------
(* gen.rs: the Module tree.  A node is kept under its key, the sequence of  *)
(* names from the dummy root down to it; its name is the last element of   *)
(* the key and its children are the nodes one element longer.              *)

TreePut(t, key, node) ==
  [k \in (DOMAIN t) \cup {key} |-> IF k = key THEN node ELSE t[k]]

Children(t, key) ==
  { c \in DOMAIN t : Len(c) = Len(key) + 1 /\ SubSeq(c, 1, Len(key)) = key }

\* mutant of push_recurse: a child module that already exists is created
\* again, empty, when a deeper package is pushed
RECURSIVE push_recurse_fresh_child(_, _, _, _, _)
push_recurse_fresh_child(t, key, parent, path, raw_name) ==
  LET sp == split_once(raw_name, <<".">>)
  IN  IF sp.found
      THEN LET child == key \o << sp.head >>
           IN  push_recurse_fresh_child(
                 TreePut(t, child, [location |-> parent, file |-> <<>>]),
                 child, parent \o << sp.head >>, path, sp.tail)
      ELSE LET child == key \o << raw_name >>
           IN  IF child \in DOMAIN t
               THEN IF t[child].file # <<>>
                    THEN [status |-> "panic", tree |-> t]
                    ELSE [status |-> "ok",
                          tree |-> TreePut(t, child,
                                     [t[child] EXCEPT !.file = << path >>])]
               ELSE [status |-> "ok",
                     tree |-> TreePut(t, child,
                                [location |-> parent, file |-> << path >>])]

\* Module::push_recurse on the node at key; status "panic" is the failed
\* assert!(old.borrow().file.is_none(), "Logic error")
RECURSIVE push_recurse(_, _, _, _, _)
push_recurse(t, key, parent, path, raw_name) ==
  LET sp == split_once(raw_name, <<".">>)
  IN  IF sp.found
      THEN LET child == key \o << sp.head >>
               t1 == IF child \in DOMAIN t THEN t
                     ELSE TreePut(t, child, [location |-> parent, file |-> None])
           IN  push_recurse(t1, child, parent \o << sp.head >>, path, sp.tail)
      ELSE LET child == key \o << raw_name >>
           IN  IF child \in DOMAIN t
               THEN IF t[child].file # None
                    THEN [status |-> "panic", tree |-> t]
                    ELSE [status |-> "ok",
                          tree |-> TreePut(t, child,
                                     [t[child] EXCEPT !.file = Some(path)])]
               ELSE [status |-> "ok",
                     tree |-> TreePut(t, child,
                                [location |-> parent, file |-> Some(path)])]

\* Module::push_file; status "err" is the Err of a file name without a '.'
push_file(t, top_level, path) ==
  LET sp == rsplit_once(FileName(path), <<".">>)
  IN  IF ~sp.found THEN [status |-> "err", tree |-> t]
      ELSE push_recurse(t, <<>>, top_level, path, sp.head)

proper_file_name(name) ==
  IF StartsWith(name, <<"r", "#">>) THEN SubSeq(name, 3, Len(name)) ELSE name

\* fs::remove_file
RemoveFile(f, path) == Restrict(f, (DOMAIN f) \ {path})

\* mutant of DumpFile: the original flat file is left where the compiler put it
DumpFileKeepsOriginal(node, name, expose, st, hdr) ==
  LET file == node.file[1]
      file_location == node.location \o << proper_file_name(name) \o RsExt >>
      content == ReadFile(st.f, file)
      text == IF expose # None
              THEN hide_doctests(expose[1] \o <<"\n">> \o content.content)
              ELSE hide_doctests(content.content)
  IN  IF ~content.ok \/ node.location \notin st.d
      THEN [st EXCEPT !.status = "err"]
      ELSE [st EXCEPT !.f = WriteFile(st.f, file_location, prepend_header(hdr, text))]

\* the arm `if let Some(file) = self.file.as_ref()` of dump_to_disk
DumpFile(node, name, expose, st, hdr) ==
  LET file == node.file[1]
      file_location == node.location \o << proper_file_name(name) \o RsExt >>
      is_same_file == file_location = file
      content == ReadFile(st.f, file)
  IN  IF ~content.ok \/ node.location \notin st.d
      THEN [st EXCEPT !.status = "err"]
      ELSE IF expose # None
      THEN LET module_header == expose[1] \o <<"\n">> \o content.content
               clean == prepend_header(hdr, hide_doctests(module_header))
               written == WriteFile(st.f, file_location, clean)
           IN  [st EXCEPT !.f = IF is_same_file THEN written
                                ELSE RemoveFile(written, file)]
      ELSE LET clean_content == prepend_header(hdr, hide_doctests(content.content))
           IN  [st EXCEPT !.f = WriteFile(RemoveFile(st.f, file), file_location,
                                          clean_content)]

\* Module::dump_to_disk on the node at key, and its loop over the sorted
\* children; st = [status, f, d, out]: the file system and, inside the loop,
\* the index text written so far
RECURSIVE dump_to_disk(_, _, _, _)
RECURSIVE DumpChildren(_, _, _, _)
DumpChildren(t, sorted, st, hdr) ==
  IF sorted = <<>> \/ st.status # "ok" THEN st
  ELSE LET child == Head(sorted)
           dumped == dump_to_disk(t, child, st, hdr)
       IN  DumpChildren(t, Tail(sorted),
                        [dumped EXCEPT !.out = st.out \o PubMod(FileName(child))],
                        hdr)

dump_to_disk(t, key, st, hdr) ==
  LET node == t[key]
      name == FileName(key)
      kids == Children(t, key)
      dir == node.location \o << name >>
      inner == IF kids = {} THEN st
               ELSE IF dir \in DOMAIN st.f THEN [st EXCEPT !.status = "err"]
               ELSE DumpChildren(t, SortByName(kids),
                                 [st EXCEPT !.d = st.d \cup Ancestors(dir),
                                            !.out = prepend_header(hdr, <<>>)],
                                 hdr)
      expose == IF kids = {} THEN None ELSE Some(inner.out)
      after == [inner EXCEPT !.out = st.out]
  IN  IF inner.status # "ok" THEN after
      ELSE IF node.file # None THEN DumpFile(node, name, expose, after, hdr)
      ELSE IF expose # None
      THEN IF node.location \notin after.d THEN [after EXCEPT !.status = "err"]
           ELSE [after EXCEPT !.f = WriteFile(after.f,
                                      node.location \o << name \o RsExt >>,
                                      expose[1])]
      ELSE [after EXCEPT !.status = "panic"]

----------------------------------------------------------------------------
(* gen.rs: clean_up_file_structure, one step per entry of the ReadDir *)

\* mutant of CleanUpEntry: a file without content is pushed like any other
CleanUpEntryKeepsEmpty ==
  /\ pc = "read_dir"
  /\ \E entry \in rd :
       /\ rd' = rd \ {entry}
       /\ IF entry \notin DOMAIN files
          THEN UNCHANGED <<files, tree, pc, result>>
          ELSE LET pushed == push_file(tree, NewRoot, entry)
               IN  /\ tree' = pushed.tree
                   /\ UNCHANGED files
                   /\ IF pushed.status = "ok" THEN UNCHANGED <<pc, result>>
                      ELSE IF pushed.status = "err" THEN Fail
                      ELSE pc' = "panic" /\ UNCHANGED result
  /\ UNCHANGED <<dirs, top_mod, gen_opts, gen0>>
  /\ UNCHANGED runVars
  /\ UNCHANGED pureVars

\* the body of `for entry in rd`
CleanUpEntry ==
  /\ pc = "read_dir"
  /\ \E entry \in rd :
       /\ rd' = rd \ {entry}
       /\ IF entry \notin DOMAIN files
          THEN UNCHANGED <<files, tree, pc, result>>
          ELSE IF files[entry] = <<>>
          THEN /\ files' = RemoveFile(files, entry)
               /\ UNCHANGED <<tree, pc, result>>
          ELSE LET pushed == push_file(tree, NewRoot, entry)
               IN  /\ tree' = pushed.tree
                   /\ UNCHANGED files
                   /\ IF pushed.status = "ok" THEN UNCHANGED <<pc, result>>
                      ELSE IF pushed.status = "err" THEN Fail
                      ELSE pc' = "panic" /\ UNCHANGED result
  /\ UNCHANGED <<dirs, top_mod, gen_opts, gen0>>
  /\ UNCHANGED runVars
  /\ UNCHANGED pureVars

\* the text of top_level_mod before the loop over the children
TopLevelHead(opts) ==
  prepend_header(opts.prepend_header, <<>>) \o AllowLine
    \o (IF opts.toplevel_attribute = None THEN <<>>
        ELSE opts.toplevel_attribute[1] \o <<"\n">>)

\* after the loop: sort the children, dump each, return the index text
CleanUpDump ==
  /\ pc = "read_dir"
  /\ rd = {}
  /\ LET st == DumpChildren(tree, SortByName(Children(tree, <<>>)),
                            [status |-> "ok", f |-> files, d |-> dirs,
                             out |-> TopLevelHead(gen_opts)],
                            gen_opts.prepend_header)
     IN  /\ files' = st.f
         /\ dirs' = st.d
         /\ IF st.status = "ok"
            THEN pc' = "generated" /\ top_mod' = st.out /\ UNCHANGED result
            ELSE IF st.status = "err"
            THEN Fail /\ UNCHANGED top_mod
            ELSE pc' = "panic" /\ UNCHANGED <<top_mod, result>>
  /\ UNCHANGED <<tree, rd, gen_opts, gen0>>
  /\ UNCHANGED runVars
  /\ UNCHANGED pureVars

----------------------------------------------------------------------------
(* Tree synthesis on its own: what the schema compiler left in the temp    *)
(* directory, then clean_up_file_structure                                 *)

\* most files the schema compiler leaves in the temp directory
MaxGen == 3

GenNames ==
  { <<"p", ".", "r", "s">>,
    <<"p", ".", "q", ".", "r", "s">>,
    <<"p", ".", "b", ".", "r", "s">>,
    <<"p", ".", "q", ".", "u", ".", "r", "s">>,
    <<"s", ".", "r", "s">>,
    <<"p", ".", "t", "x", "t">>,
    <<"r", "#", "s", ".", "r", "s">>,
    <<"m">> }

GenTexts ==
  { <<>>,
    <<"y">>,
    <<"/", "/", "/", " ", " ", " ", " ", "x", "\n">> }

Headers == { None, Some(<<"/", "/", "h", "\n">>) }

Attributes == { None, Some(<<"#", "!", "[", "a", "]">>) }

GenFiles(g) == [ q \in { NewRoot \o << n >> : n \in DOMAIN g } |-> g[FileName(q)] ]

InitSynth ==
  /\ \E names \in { S \in SUBSET GenNames : Cardinality(S) <= MaxGen } :
       gen0 \in [names -> GenTexts]
  /\ files = GenFiles(gen0)
  /\ dirs = Ancestors(NewRoot)
  /\ gen_opts \in [prepend_header : Headers, toplevel_attribute : Attributes]
  /\ tree = <<>>
  /\ rd = ReadDir(files, dirs, NewRoot)
  /\ pc = "read_dir"
  /\ top_mod = <<>>
  /\ result = NoResult
  /\ commit = FALSE
  /\ orig_files = {}
  /\ new_iter = {}
  /\ diff = 0
  /\ toCopy = {}
  /\ run = 1
  /\ committed = FALSE
  /\ arg = <<>>
  /\ ret = <<>>

NextSynth ==
  \/ CleanUpEntry
  \/ CleanUpDump

SpecSynth == InitSynth /\ [][NextSynth]_vars

----------------------------------------------------------------------------
(* Tree synthesis of a module that has content and children, under headers *)
(* of several shapes                                                       *)

MergeNames ==
  { <<"p", ".", "r", "s">>,
    <<"p", ".", "q", ".", "r", "s">>,
    <<"p", ".", "b", ".", "r", "s">> }

\* no header, a plain comment with and without line ending, a
\* documentation comment indented by four blanks, a fence in a comment
MergeHeaders ==
  { None,
    Some(<<"/", "/", "h", "\n">>),
    Some(<<"/", "/", "h">>),
    Some(<<"/", "/", "/", " ", " ", " ", " ", "h", "\n">>),
    Some(<<"/", "/", "/", Tick, Tick, Tick, "\n">>) }

InitMerge ==
  /\ \E names \in SUBSET MergeNames : gen0 \in [names -> GenTexts]
  /\ files = GenFiles(gen0)
  /\ dirs = Ancestors(NewRoot)
  /\ gen_opts \in [prepend_header : MergeHeaders, toplevel_attribute : Attributes]
  /\ tree = <<>>
  /\ rd = ReadDir(files, dirs, NewRoot)
  /\ pc = "read_dir"
  /\ top_mod = <<>>
  /\ result = NoResult
  /\ commit = FALSE
  /\ orig_files = {}
  /\ new_iter = {}
  /\ diff = 0
  /\ toCopy = {}
  /\ run = 1
  /\ committed = FALSE
  /\ arg = <<>>
  /\ ret = <<>>

NextMerge ==
  \/ CleanUpEntry
  \/ CleanUpDump

SpecMerge == InitMerge /\ [][NextMerge]_vars

----------------------------------------------------------------------------
(* lib.rs: the ModuleContainer tree.  A Parent is a node without a file, a *)
(* Node is a node with one; the dummy root is a Parent.                    *)

IsParent(t, key) == key = <<>> \/ t[key].file = None

\* HashMap::insert of a container: what was kept under the key goes, with
\* everything below it
TreeReplace(t, key, node) ==
  [k \in { o \in DOMAIN t : ~(Len(o) > Len(key) /\ SubSeq(o, 1, Len(key)) = key) }
           \cup {key} |-> IF k = key THEN node ELSE t[k]]

\* ModuleContainer::push_recurse on the container at key
RECURSIVE ModuleContainer_push_recurse(_, _, _, _, _)
ModuleContainer_push_recurse(t, key, parent, path, raw_name) ==
  LET sp == split_once(raw_name, <<".">>)
  IN  IF ~IsParent(t, key) THEN [status |-> "err", tree |-> t]
      ELSE IF sp.found
      THEN LET child == key \o << sp.head >>
               t1 == IF child \in DOMAIN t THEN t
                     ELSE TreePut(t, child, [location |-> parent, file |-> None])
           IN  ModuleContainer_push_recurse(t1, child, parent \o << sp.head >>,
                                            path, sp.tail)
      ELSE [status |-> "ok",
            tree |-> TreeReplace(t, key \o << raw_name >>,
                                 [location |-> parent, file |-> Some(path)])]

\* ModuleContainer::push_file
ModuleContainer_push_file(t, top_level, path) ==
  LET sp == rsplit_once(FileName(path), <<".">>)
  IN  IF ~sp.found THEN [status |-> "err", tree |-> t]
      ELSE ModuleContainer_push_recurse(t, <<>>, top_level, path, sp.head)

\* format_args!("pub mod {};", name) of ModuleContainer::dump_to_disk
PubModInline(name) == <<"p", "u", "b", " ", "m", "o", "d", " ">> \o name \o <<";">>

\* ModuleContainer::dump_to_disk on the container at key, and its loop over the
\* sorted children
RECURSIVE ModuleContainer_dump_to_disk(_, _, _)
RECURSIVE ModuleContainer_DumpChildren(_, _, _)
ModuleContainer_DumpChildren(t, sorted, st) ==
  IF sorted = <<>> \/ st.status # "ok" THEN st
  ELSE LET child == Head(sorted)
           dumped == ModuleContainer_dump_to_disk(t, child, st)
       IN  ModuleContainer_DumpChildren(t, Tail(sorted),
             [dumped EXCEPT !.out = st.out \o PubModInline(FileName(child))])

ModuleContainer_dump_to_disk(t, key, st) ==
  LET node == t[key]
      name == FileName(key)
  IN  IF node.file = None
      THEN LET dir == node.location \o << name >>
               inner == IF dir \in DOMAIN st.f THEN [st EXCEPT !.status = "err"]
                        ELSE ModuleContainer_DumpChildren(t,
                               SortByName(Children(t, key)),
                               [st EXCEPT !.d = st.d \cup Ancestors(dir),
                                          !.out = <<>>])
               mod_file_location == node.location \o << name \o RsExt >>
           IN  IF inner.status # "ok" \/ node.location \notin inner.d
               THEN [inner EXCEPT !.status = "err", !.out = st.out]
               ELSE [inner EXCEPT !.f = WriteFile(inner.f, mod_file_location,
                                                  inner.out),
                                  !.out = st.out]
      ELSE LET file == node.file[1]
               file_location == node.location \o << name \o RsExt >>
               content == ReadFile(st.f, file)
           IN  IF file_location = file THEN st
               ELSE IF ~content.ok \/ node.location \notin st.d
               THEN [st EXCEPT !.status = "err"]
               ELSE [st EXCEPT !.f = RemoveFile(
                                       WriteFile(st.f, file_location,
                                                 content.content), file)]

\* lib.rs clean_up_file_structure: the body of `for entry in rd`
LibCleanUpEntry ==
  /\ pc = "read_dir"
  /\ \E entry \in rd :
       /\ rd' = rd \ {entry}
       /\ IF entry \notin DOMAIN files
          THEN UNCHANGED <<files, tree, pc, result>>
          ELSE IF files[entry] = <<>>
          THEN /\ files' = RemoveFile(files, entry)
               /\ UNCHANGED <<tree, pc, result>>
          ELSE LET pushed == ModuleContainer_push_file(tree, NewRoot, entry)
               IN  /\ tree' = pushed.tree
                   /\ UNCHANGED files
                   /\ IF pushed.status = "ok" THEN UNCHANGED <<pc, result>>
                      ELSE Fail
  /\ UNCHANGED <<dirs, top_mod, gen_opts, gen0>>
  /\ UNCHANGED runVars
  /\ UNCHANGED pureVars

\* lib.rs clean_up_file_structure after the loop
LibCleanUpDump ==
  /\ pc = "read_dir"
  /\ rd = {}
  /\ LET names == SortByName(Children(tree, <<>>))
         top == ModuleContainer_DumpChildren(tree, names,
                  [status |-> "ok", f |-> files, d |-> dirs, out |-> <<>>])
     IN  /\ files' = top.f
         /\ dirs' = top.d
         /\ IF top.status = "ok"
            THEN /\ pc' = "generated"
                 /\ top_mod' = AllowLine
                      \o Concat([i \in 1..Len(names) |-> PubMod(FileName(names[i]))])
                 /\ UNCHANGED result
            ELSE Fail /\ UNCHANGED top_mod
  /\ UNCHANGED <<tree, rd, gen_opts, gen0>>
  /\ UNCHANGED runVars
  /\ UNCHANGED pureVars

NextLib ==
  \/ LibCleanUpEntry
  \/ LibCleanUpDump

SpecLib == InitSynth /\ [][NextLib]_vars

----------------------------------------------------------------------------
(* path_from_starts_with and collect_files called on their own *)

\* lib.rs: the loop over components(): the index of the first component
\* that starts with root, 0 when there is none
RECURSIVE ScanForward(_, _, _)
ScanForward(root, path, i) ==
  IF i > Len(path) THEN 0
  ELSE IF StartsWith(path[i], root) THEN i
  ELSE ScanForward(root, path, i + 1)

\* lib.rs path_from_starts_with
path_from_starts_with_lib(root, path) ==
  LET i == ScanForward(root, path, 1)
  IN  IF i = 0
      THEN [ok |-> FALSE, path |-> <<>>]
      ELSE [ok |-> TRUE, path |-> SubSeq(path, i + 1, Len(path))]

\* most components of a path handed to path_from_starts_with
MaxDepth == 3

\* names of directories and files, and root markers
WalkNames == { <<"o">>, <<"o", "b">>, <<"w">>, <<"b">> }
WalkMarkers == { <<"o">>, <<"w">>, <<"z">> }

WalkPaths == UNION { [1..n -> WalkNames] : n \in 1..MaxDepth }

\* a file system that holds the one regular file path
OneFile(path) == [ q \in {path} |-> <<"x">> ]

InitWalk ==
  /\ arg \in [root : WalkMarkers, path : WalkPaths]
  /\ ret = <<>>
  /\ pc = "call"
  /\ files = OneFile(arg.path)
  /\ dirs = Ancestors(Parent(arg.path))
  /\ top_mod = <<>>
  /\ result = NoResult
  /\ commit = FALSE
  /\ orig_files = {}
  /\ new_iter = {}
  /\ diff = 0
  /\ toCopy = {}
  /\ run = 1
  /\ committed = FALSE
  /\ tree = <<>>
  /\ rd = {}
  /\ gen_opts = [prepend_header |-> <<>>, toplevel_attribute |-> <<>>]
  /\ gen0 = <<>>

WalkFrame ==
  /\ UNCHANGED <<files, dirs, top_mod, result, arg>>
  /\ UNCHANGED runVars
  /\ UNCHANGED synthVars

\* gen.rs path_from_starts_with(root, path)
CallPath ==
  /\ pc = "call"
  /\ ret' = path_from_starts_with(arg.root, arg.path)
  /\ pc' = "returned"
  /\ WalkFrame

\* lib.rs path_from_starts_with(root, path)
CallPathLib ==
  /\ pc = "call"
  /\ ret' = path_from_starts_with_lib(arg.root, arg.path)
  /\ pc' = "returned_lib"
  /\ WalkFrame

\* collect_files(source, root) on the top directory of the path
CallCollect ==
  /\ pc = "call"
  /\ Len(arg.path) > 1
  /\ ret' = collect_files(files, dirs, << arg.path[1] >>, arg.root)
  /\ pc' = "collected"
  /\ WalkFrame

NextWalk ==
  \/ CallPath
  \/ CallPathLib
  \/ CallCollect

SpecWalk == InitWalk /\ [][NextWalk]_vars

----------------------------------------------------------------------------
(* run_diff on the first generation ever: the output directory is not there *)

NmTB == <<"t", "b">>
NmTC == <<"t", "c">>
NmTD == <<"t", "d">>

\* relative paths a regular file may have below the temp directory
FirstPaths == { <<NmB>>, <<NmTB>>, <<NmTC>>, <<NmD, NmB>>, <<NmTD, NmB>> }

FirstTrees ==
  UNION { [D -> Contents] :
            D \in { S \in SUBSET FirstPaths : Cardinality(S) <= MaxFiles } }

InitFirst ==
  /\ \E fn \in FirstTrees, hasIdx \in BOOLEAN, idx \in Contents :
       /\ hasIdx \/ idx = <<"x">>
       /\ files = InitFiles(<<>>, fn, hasIdx, idx)
       /\ dirs = InitDirs(files, FALSE)
  /\ top_mod = <<"x">>
  /\ commit = FALSE
  /\ pc = "start"
  /\ orig_files = {}
  /\ new_iter = {}
  /\ diff = 0
  /\ toCopy = {}
  /\ result = NoResult
  /\ run = 1
  /\ committed = FALSE
  /\ tree = <<>>
  /\ rd = {}
  /\ gen_opts = [prepend_header |-> <<>>, toplevel_attribute |-> <<>>]
  /\ gen0 = <<>>
  /\ arg = <<>>
  /\ ret = <<>>

NextFirst ==
  \/ RunDiffBegin
  \/ DiffLoop
  \/ DiffIndex
  \/ DiffRest

SpecFirst == InitFirst /\ [][NextFirst]_vars

----------------------------------------------------------------------------
(* hide_doctests called on its own *)

\* most lines of a text handed to hide_doctests
MaxLines == 4

\* lines without their line ending: empty, code, a documentation comment,
\* one indented by four and one by three blanks, a fence in a comment
LineBodies ==
  { <<>>,
    <<"x">>,
    <<"/", "/", "/", " ", "x">>,
    <<"/", "/", "/", " ", " ", " ", " ", "x">>,
    <<"/", "/", "/", " ", " ", " ", "x">>,
    <<"/", "/", "/", " ", Tick, Tick, Tick>> }

LineEndings == { <<"\n">>, <<"\r", "\n">> }

\* the text of the lines, each with the line ending, the last one only if
\* the text ends with a line ending
ContentOf(a) ==
  Concat([i \in 1..Len(a.lines) |->
            a.lines[i] \o (IF i < Len(a.lines) \/ a.last THEN a.eol ELSE <<>>)])

InitHide ==
  /\ arg \in [lines : UNION { [1..n -> LineBodies] : n \in 0..MaxLines },
              eol : LineEndings, last : BOOLEAN]
  \* a last line without line ending has at least one character
  /\ IF arg.last \/ Len(arg.lines) = 0 THEN TRUE
     ELSE arg.lines[Len(arg.lines)] # <<>>
  /\ ret = <<>>
  /\ pc = "call"
  /\ files = <<>>
  /\ dirs = {}
  /\ top_mod = <<>>
  /\ result = NoResult
  /\ commit = FALSE
  /\ orig_files = {}
  /\ new_iter = {}
  /\ diff = 0
  /\ toCopy = {}
  /\ run = 1
  /\ committed = FALSE
  /\ tree = <<>>
  /\ rd = {}
  /\ gen_opts = [prepend_header |-> <<>>, toplevel_attribute |-> <<>>]
  /\ gen0 = <<>>

\* hide_doctests(content)
CallHide ==
  /\ pc = "call"
  /\ ret' = hide_doctests(ContentOf(arg))
  /\ pc' = "hidden"
  /\ UNCHANGED <<files, dirs, top_mod, result, arg>>
  /\ UNCHANGED runVars
  /\ UNCHANGED synthVars

NextHide ==
  \/ CallHide

SpecHide == InitHide /\ [][NextHide]_vars

----------------------------------------------------------------------------
(* main.rs: run_ws, around one run of the diff and commit engine *)

\* trees of at most one file
WsTrees == { t \in Trees : Cardinality(DOMAIN t) <= 1 }

\* the tree below the temp directory
TempTree(t) == [ q \in { NewRoot \o p : p \in DOMAIN t } |-> t[Rel(q, NewRoot)] ]

InitWs ==
  /\ arg \in [tmp_dir : {None, Some(NewRoot)}, proto_files : {0, 1}, gen : WsTrees]
  /\ \E fo \in WsTrees, hasIdx \in BOOLEAN, idx \in Contents :
       /\ hasIdx \/ idx = <<"x">>
       /\ files = InitFiles(fo, <<>>, hasIdx, idx)
       /\ dirs = IF arg.tmp_dir = None
                 THEN InitDirs(files, TRUE) \ {NewRoot}
                 ELSE InitDirs(files, TRUE)
  /\ top_mod = <<"x">>
  /\ commit \in BOOLEAN
  /\ pc = "run_ws"
  /\ orig_files = {}
  /\ new_iter = {}
  /\ diff = 0
  /\ toCopy = {}
  /\ result = NoResult
  /\ run = 1
  /\ committed = FALSE
  /\ tree = <<>>
  /\ rd = {}
  /\ gen_opts = [prepend_header |-> <<>>, toplevel_attribute |-> <<>>]
  /\ gen0 = <<>>
  /\ ret = <<>>

WsFrame ==
  /\ UNCHANGED <<top_mod>>
  /\ UNCHANGED runVars
  /\ UNCHANGED synthVars
  /\ UNCHANGED pureVars

\* if opts.proto_files.is_empty() { return Err(..) }
RunWsNoProtoFiles ==
  /\ pc = "run_ws"
  /\ arg.proto_files = 0
  /\ pc' = "returned"
  /\ result' = IoError
  /\ UNCHANGED <<files, dirs>>
  /\ WsFrame

\* tempfile::tempdir() fails
RunWsTempDirFails ==
  /\ pc = "run_ws"
  /\ arg.proto_files > 0
  /\ arg.tmp_dir = None
  /\ pc' = "returned"
  /\ result' = IoError
  /\ UNCHANGED <<files, dirs>>
  /\ WsFrame

\* the temp directory is there and generate_to_tmp has materialized the
\* candidate tree in it
RunWsGenerate ==
  /\ pc = "run_ws"
  /\ arg.proto_files > 0
  /\ files' = [ q \in (DOMAIN files) \cup DOMAIN TempTree(arg.gen) |->
                  IF q \in DOMAIN files THEN files[q] ELSE TempTree(arg.gen)[q] ]
  /\ dirs' = dirs \cup {NewRoot}
               \cup UNION { Ancestors(Parent(q)) : q \in DOMAIN TempTree(arg.gen) }
  /\ pc' = "start"
  /\ UNCHANGED result
  /\ WsFrame

\* the temp directory is there and generate_to_tmp returns Err
RunWsGenerateFails ==
  /\ pc = "run_ws"
  /\ arg.proto_files > 0
  /\ dirs' = dirs \cup {NewRoot}
  /\ pc' = "done"
  /\ result' = IoError
  /\ UNCHANGED files
  /\ WsFrame

\* mutant of RunWsReturn: the TempDir is not dropped
RunWsReturnKeepsTemp ==
  /\ pc = "done"
  /\ pc' = "returned"
  /\ UNCHANGED <<files, dirs, result>>
  /\ WsFrame

\* run_generation has returned; the TempDir of the else branch is dropped
RunWsReturn ==
  /\ pc = "done"
  /\ pc' = "returned"
  /\ IF arg.tmp_dir = None
     THEN /\ files' = RemoveDirAllFiles(files, NewRoot)
          /\ dirs' = RemoveDirAllDirs(dirs, NewRoot)
     ELSE UNCHANGED <<files, dirs>>
  /\ UNCHANGED result
  /\ WsFrame

NextWs ==
  \/ RunWsNoProtoFiles
  \/ RunWsTempDirFails
  \/ RunWsGenerate
  \/ RunWsGenerateFails
  \/ RunDiffBegin
  \/ DiffLoop
  \/ DiffIndex
  \/ DiffRest
  \/ Decide
  \/ CopyClean
  \/ CopyCleanRemoveFails
  \/ CopyCleanCreateFails
  \/ CopyStep
  \/ CopyFails
  \/ CopyReturn
  \/ WriteIndex
  \/ WriteIndexFails
  \/ RunWsReturn

SpecWs == InitWs /\ [][NextWs]_vars

----------------------------------------------------------------------------
(* kv.rs: KvValueParser::parse_ref on one command line value *)

\* most characters of a value
MaxKv == 4

KvChars == { "k", "v", ":" }

KvValues == UNION { [1..n -> KvChars] : n \in 0..MaxKv }

KvError == [ok |-> FALSE, kind |-> "ValueValidation", k |-> <<>>, v |-> <<>>]

\* mutant of parse_ref: the value is split at its last ':'
parse_ref_last_colon(a) ==
  IF ~a.utf8 THEN KvError
  ELSE LET sp == rsplit_once(a.value, <<":">>)
       IN  IF sp.found
           THEN [ok |-> TRUE, kind |-> "none", k |-> sp.head, v |-> sp.tail]
           ELSE KvError

\* parse_ref: value.to_str() is None for a value that is not UTF-8
parse_ref(a) ==
  IF ~a.utf8 THEN KvError
  ELSE LET sp == split_once(a.value, <<":">>)
       IN  IF sp.found
           THEN [ok |-> TRUE, kind |-> "none", k |-> sp.head, v |-> sp.tail]
           ELSE KvError

InitKv ==
  /\ arg \in [utf8 : BOOLEAN, value : KvValues]
  /\ ret = <<>>
  /\ pc = "call"
  /\ files = <<>>
  /\ dirs = {}
  /\ top_mod = <<>>
  /\ result = NoResult
  /\ commit = FALSE
  /\ orig_files = {}
  /\ new_iter = {}
  /\ diff = 0
  /\ toCopy = {}
  /\ run = 1
  /\ committed = FALSE
  /\ tree = <<>>
  /\ rd = {}
  /\ gen_opts = [prepend_header |-> <<>>, toplevel_attribute |-> <<>>]
  /\ gen0 = <<>>

KvFrame ==
  /\ UNCHANGED <<files, dirs, top_mod, result, arg>>
  /\ UNCHANGED runVars
  /\ UNCHANGED synthVars

\* the argument parser calls parse_ref on the value; an Err ends the command
CallParse ==
  /\ pc = "call"
  /\ ret' = parse_ref(arg)
  /\ pc' = IF ret'.ok THEN "parsed" ELSE "rejected"
  /\ KvFrame

\* run_with_opts hands the pair to the builder
KvToBuilder ==
  /\ pc = "parsed"
  /\ pc' = "generation"
  /\ UNCHANGED ret
  /\ KvFrame

NextKv ==
  \/ CallParse
  \/ KvToBuilder

SpecKv == InitKv /\ [][NextKv]_vars

----------------------------------------------------------------------------
(* gen.rs: run_generation from the formatting step on.  arg.format is      *)
(* gen_opts.format, rd the files recurse_fmt has still to visit, ret the   *)
(* exit of the formatter run last                                          *)

NmBRs == <<"b", ".", "r", "s">>

FmtRelPaths == { <<NmBRs>>, <<NmD, NmBRs>>, <<NmC>> }

\* a formatted line and the same line with a blank in front
FmtContents == { <<"x", "\n">>, <<" ", "x", "\n">> }

FmtTrees ==
  UNION { [D -> FmtContents] : D \in { S \in SUBSET FmtRelPaths : Cardinality(S) <= 1 } }

\* path.extension().is_some_and(|p| p.eq_ignore_ascii_case(ext)), for the
\* names of the model, which are in lower case
has_ext(path, ext) ==
  LET sp == rsplit_once(FileName(path), <<".">>)
  IN  sp.found /\ sp.head # <<>> /\ sp.tail = ext

\* what rustfmt makes of the texts of the model: blanks in front are removed
RECURSIVE Rustfmt(_)
Rustfmt(code) ==
  IF code # <<>> /\ Head(code) = " " THEN Rustfmt(Tail(code)) ELSE code

\* what a formatter that exits with an error may have written to its
\* standard output
FailedStdout == { <<>>, <<"x">> }

ExitNone == <<>>
ExitSuccess == <<"ok">>
ExitFileFailed == <<"file">>
ExitIndexFailed == <<"index">>

InitFmt ==
  /\ arg \in [format : {None, Some(<<"2", "1">>)}]
  /\ \E fo \in FmtTrees, fn \in FmtTrees, hasIdx \in BOOLEAN, idx \in FmtContents :
       /\ hasIdx \/ idx = <<"x", "\n">>
       /\ files = InitFiles(fo, fn, hasIdx, idx)
       /\ dirs = InitDirs(files, TRUE)
  /\ top_mod \in FmtContents
  /\ commit \in BOOLEAN
  /\ pc = "format"
  /\ rd = { p \in DOMAIN files : IsUnder(p, NewRoot) }
  /\ ret = ExitNone
  /\ orig_files = {}
  /\ new_iter = {}
  /\ diff = 0
  /\ toCopy = {}
  /\ result = NoResult
  /\ run = 1
  /\ committed = FALSE
  /\ tree = <<>>
  /\ gen_opts = [prepend_header |-> <<>>, toplevel_attribute |-> <<>>]
  /\ gen0 = <<>>

FmtFrame ==
  /\ UNCHANGED <<dirs, arg, tree, gen_opts, gen0>>
  /\ UNCHANGED runVars

\* if let Some(edition) = gen_opts.format.as_deref() is not taken
FormatNotRequested ==
  /\ pc = "format"
  /\ arg.format = None
  /\ pc' = "start"
  /\ UNCHANGED <<files, top_mod, result, rd, ret>>
  /\ FmtFrame

\* one entry of recurse_fmt: a file with the extension rs is handed to
\* rustfmt, which rewrites it in place or exits with an error
RecurseFmtEntry ==
  /\ pc = "format"
  /\ arg.format # None
  /\ \E entry \in rd :
       IF has_ext(entry, <<"r", "s">>)
       THEN \/ /\ files' = [files EXCEPT ![entry] = Rustfmt(files[entry])]
               /\ rd' = rd \ {entry}
               /\ ret' = ExitSuccess
               /\ UNCHANGED <<pc, result>>
            \/ /\ ret' = ExitFileFailed
               /\ Fail
               /\ UNCHANGED <<files, rd>>
       ELSE /\ rd' = rd \ {entry}
            /\ UNCHANGED <<files, ret, pc, result>>
  /\ UNCHANGED top_mod
  /\ FmtFrame

\* top_mod_content = fmt(&top_mod_content, edition)?: the text goes to the
\* standard input of rustfmt and its standard output is taken, whatever
\* the exit status
FmtTopLevel ==
  /\ pc = "format"
  /\ arg.format # None
  /\ rd = {}
  /\ \/ /\ top_mod' = Rustfmt(top_mod)
        /\ ret' = ExitSuccess
     \/ /\ top_mod' \in FailedStdout
        /\ ret' = ExitIndexFailed
  /\ pc' = "start"
  /\ UNCHANGED <<files, result, rd>>
  /\ FmtFrame

\* rustfmt cannot be launched, or its pipes fail
FmtLaunchFails ==
  /\ pc = "format"
  /\ arg.format # None
  /\ Fail
  /\ UNCHANGED <<files, top_mod, rd, ret>>
  /\ FmtFrame

NextFmt ==
  \/ FormatNotRequested
  \/ RecurseFmtEntry
  \/ FmtTopLevel
  \/ FmtLaunchFails
  \/ RunDiffBegin
  \/ DiffLoop
  \/ DiffIndex
  \/ DiffRest
  \/ Decide
  \/ CopyClean
  \/ CopyCleanRemoveFails
  \/ CopyCleanCreateFails
  \/ CopyStep
  \/ CopyFails
  \/ CopyReturn
  \/ WriteIndex
  \/ WriteIndexFails

SpecFmt == InitFmt /\ [][NextFmt]_vars

----------------------------------------------------------------------------
(* gen.rs: generate_to_tmp.  arg.out_dir is the value of the environment   *)
(* variable OUT_DIR when generate_to_tmp is called and ret its value now;  *)
(* gen0 is what the schema compiler writes when it succeeds                *)

\* a value of an environment variable: not set, a string, or bytes that
\* are not Unicode
EnvUnset == <<>>
EnvString(s) == <<"string", s>>
EnvNotUnicode == <<"bytes">>

EnvValues ==
  { EnvUnset, EnvNotUnicode, EnvString(<<>>), EnvString(<<"w">>), EnvString(<<"v", "/", "t">>) }

\* std::env::var(key): Ok for a value that is set and is Unicode
env_var(value) ==
  IF value # EnvUnset /\ value # EnvNotUnicode
  THEN [ok |-> TRUE, value |-> value[2]]
  ELSE [ok |-> FALSE, value |-> <<>>]

\* &ws.tmp_dir as the string handed to set_var
TmpDirString == <<"v", "/", "t">>

InitEnv ==
  /\ arg \in [out_dir : EnvValues]
  /\ ret = arg.out_dir
  /\ \E names \in SUBSET MergeNames : gen0 \in [names -> GenTexts]
  /\ files = <<>>
  /\ dirs = Ancestors(NewRoot)
  /\ gen_opts \in [prepend_header : Headers, toplevel_attribute : {None}]
  /\ tree = <<>>
  /\ rd = {}
  /\ pc = "generate_to_tmp"
  /\ top_mod = <<>>
  /\ result = NoResult
  /\ commit = FALSE
  /\ orig_files = {}
  /\ new_iter = {}
  /\ diff = 0
  /\ toCopy = {}
  /\ run = 1
  /\ committed = FALSE

EnvFrame ==
  /\ UNCHANGED <<dirs, top_mod, arg, tree, gen_opts, gen0>>
  /\ UNCHANGED runVars

\* let old_out = std::env::var("OUT_DIR"); std::env::set_var("OUT_DIR", &ws.tmp_dir)
SetOutDir ==
  /\ pc = "generate_to_tmp"
  /\ ret' = EnvString(TmpDirString)
  /\ pc' = "compile"
  /\ UNCHANGED <<files, rd, result>>
  /\ EnvFrame

\* opts.compile_with_config(..) succeeds: the files are in the temp directory
CompileOk ==
  /\ pc = "compile"
  /\ files' = GenFiles(gen0)
  /\ pc' = "restore"
  /\ UNCHANGED <<ret, rd, result>>
  /\ EnvFrame

\* opts.compile_with_config(..).map_err(..)? returns the error
CompileFails ==
  /\ pc = "compile"
  /\ Fail
  /\ UNCHANGED <<files, ret, rd>>
  /\ EnvFrame

\* if let Ok(old) = old_out { set_var("OUT_DIR", old) } else { remove_var("OUT_DIR") },
\* then clean_up_file_structure reads the temp directory
RestoreOutDir ==
  /\ pc = "restore"
  /\ LET old_out == env_var(arg.out_dir)
     IN  ret' = IF old_out.ok THEN EnvString(old_out.value) ELSE EnvUnset
  /\ rd' = ReadDir(files, dirs, NewRoot)
  /\ pc' = "read_dir"
  /\ UNCHANGED <<files, result>>
  /\ EnvFrame

NextEnv ==
  \/ SetOutDir
  \/ CompileOk
  \/ CompileFails
  \/ RestoreOutDir
  \/ CleanUpEntry
  \/ CleanUpDump

SpecEnv == InitEnv /\ [][NextEnv]_vars

----------------------------------------------------------------------------
(* proto-gen-cli main.rs: find_proto_dirs and run_recursively.  arg holds  *)
(* the base directory, ret the workspaces found, the index of the next to  *)
(* run and the outcome of each run so far                                  *)

\* most files below the base directory
MaxProto == 3

Base == << <<"r">> >>

DotProto == <<".", "p", "r", "o", "t", "o">>
NmAProto == <<"a">> \o DotProto
NmBProto == <<"b">> \o DotProto
NmCProto == <<"c">> \o DotProto
NmDProto == <<"d">> \o DotProto
NmEProto == <<"e">> \o DotProto

\* files that may lie below the base directory: schema files in r/p, in a
\* directory of r/p that sorts after them (z) and in one that sorts before
\* them (a), in r/q, in r/s/p and in the base directory itself, and a file
\* that is no schema file
BatchPaths ==
  { << <<"p">>, NmAProto >>,
    << <<"p">>, NmBProto >>,
    << <<"p">>, <<"z">>, NmCProto >>,
    << <<"p">>, <<"a">>, NmCProto >>,
    << <<"q">>, NmDProto >>,
    << <<"s">>, <<"p">>, NmAProto >>,
    << NmEProto >>,
    << <<"p">>, <<"n", ".", "t", "x", "t">> >> }

\* Path::cmp: component by component
RECURSIVE PathLess(_, _)
PathLess(a, b) ==
  IF b = <<>> THEN FALSE
  ELSE IF a = <<>> THEN TRUE
  ELSE IF a[1] # b[1] THEN StrLess(a[1], b[1])
  ELSE PathLess(Tail(a), Tail(b))

\* protodirs.sort_by(|a, b| a.proto_dir.cmp(&b.proto_dir)); no two
\* workspaces of one walk have the same proto_dir
RECURSIVE SortByProtoDir(_)
SortByProtoDir(found) ==
  IF found = <<>> THEN <<>>
  ELSE LET idx == CHOOSE i \in 1..Len(found) :
                    \A j \in 1..Len(found) :
                      j # i => PathLess(found[i].proto_dir, found[j].proto_dir)
       IN  << found[idx] >>
             \o SortByProtoDir([k \in 1..(Len(found) - 1) |->
                                  IF k < idx THEN found[k] ELSE found[k + 1]])

GeneratedOutBaseName == <<"p", "r", "o", "t", "o", "_", "t", "y", "p", "e", "s">>

\* the FoundWorkspace pushed for the directory of a schema file, without
\* its temp directory
FoundWorkspace(f, proto_dir) ==
  [proto_dir |-> proto_dir,
   proto_files |-> SortByName({ p \in DOMAIN f :
                                  /\ Len(p) = Len(proto_dir) + 1
                                  /\ Parent(p) = proto_dir
                                  /\ EndsWith(FileName(p), DotProto) }),
   output_dir |-> Parent(proto_dir) \o << <<"s", "r", "c">>, GeneratedOutBaseName >>]

\* mutant of FindLoop: a directory among the entries is passed over
RECURSIVE FindLoopNoDescent(_, _, _, _)
FindLoopNoDescent(f, d, sub_dirs, protodirs) ==
  IF sub_dirs = <<>> THEN protodirs
  ELSE LET path == Head(sub_dirs)
       IN  IF path \in d
           THEN FindLoopNoDescent(f, d, Tail(sub_dirs), protodirs)
           ELSE IF EndsWith(FileName(path), DotProto)
           THEN protodirs \o << FoundWorkspace(f, Parent(path)) >>
           ELSE FindLoopNoDescent(f, d, Tail(sub_dirs), protodirs)

\* find_proto_dirs(base) and its loop `for path in sub_dirs`
RECURSIVE find_proto_dirs(_, _, _)
RECURSIVE FindLoop(_, _, _, _)
FindLoop(f, d, sub_dirs, protodirs) ==
  IF sub_dirs = <<>> THEN protodirs
  ELSE LET path == Head(sub_dirs)
       IN  IF path \in d
           THEN FindLoop(f, d, Tail(sub_dirs), protodirs \o find_proto_dirs(f, d, path))
           ELSE IF EndsWith(FileName(path), DotProto)
           THEN protodirs \o << FoundWorkspace(f, Parent(path)) >>
           ELSE FindLoop(f, d, Tail(sub_dirs), protodirs)

find_proto_dirs(f, d, base) ==
  SortByProtoDir(FindLoop(f, d, SortByName(ReadDir(f, d, base)), <<>>))

\* what a run for the workspace writes into its output directory
GeneratedFile(ws) == ws.output_dir \o << <<"g", ".", "r", "s">> >>
GeneratedText(ws) == Concat(ws.proto_dir)

InitBatch ==
  /\ arg = [base |-> Base]
  /\ \E S \in { T \in SUBSET BatchPaths : Cardinality(T) <= MaxProto } :
       /\ files = [ q \in { Base \o p : p \in S } |-> <<"x">> ]
       /\ dirs = Ancestors(Base) \cup {Base}
                   \cup UNION { Ancestors(Parent(Base \o p)) \cup {Parent(Base \o p)} : p \in S }
  /\ commit \in BOOLEAN
  /\ pc = "find"
  /\ ret = [found |-> <<>>, next |-> 1, ran |-> <<>>]
  /\ result = NoResult
  /\ top_mod = <<>>
  /\ orig_files = {}
  /\ new_iter = {}
  /\ diff = 0
  /\ toCopy = {}
  /\ run = 1
  /\ committed = FALSE
  /\ tree = <<>>
  /\ rd = {}
  /\ gen_opts = [prepend_header |-> <<>>, toplevel_attribute |-> <<>>]
  /\ gen0 = <<>>

BatchFrame ==
  /\ UNCHANGED <<top_mod, arg, commit, orig_files, new_iter, diff, toCopy, run, committed>>
  /\ UNCHANGED synthVars

\* let proto_dirs = find_proto_dirs(base)?
FindProtoDirs ==
  /\ pc = "find"
  /\ ret' = [ret EXCEPT !.found = find_proto_dirs(files, dirs, arg.base)]
  /\ pc' = "loop"
  /\ UNCHANGED <<files, dirs, result>>
  /\ BatchFrame

\* a directory cannot be read or a temp directory cannot be made
FindProtoDirsFails ==
  /\ pc = "find"
  /\ pc' = "returned"
  /\ result' = IoError
  /\ UNCHANGED <<files, dirs, ret>>
  /\ BatchFrame

Ran(outcome) ==
  [ret EXCEPT !.next = ret.next + 1,
              !.ran = Append(ret.ran, [proto_dir |-> ret.found[ret.next].proto_dir,
                                       outcome |-> outcome])]

\* run_proto_gen returns Ok(()) with no diff found: nothing is written
RunProtoGenNoDiff ==
  /\ pc = "loop"
  /\ ret.next <= Len(ret.found)
  /\ ret' = Ran("nodiff")
  /\ UNCHANGED <<files, dirs, pc, result>>
  /\ BatchFrame

\* run_proto_gen returns Ok(()) after the commit of the candidate tree
RunProtoGenCommits ==
  /\ pc = "loop"
  /\ ret.next <= Len(ret.found)
  /\ commit
  /\ LET ws == ret.found[ret.next]
         cleaned == RemoveDirAllFiles(files, ws.output_dir)
     IN  /\ files' = WriteFile(WriteFile(cleaned, GeneratedFile(ws), GeneratedText(ws)),
                               ModFile(ws.output_dir), GeneratedText(ws))
         /\ dirs' = dirs \cup Ancestors(ws.output_dir) \cup {ws.output_dir}
  /\ ret' = Ran("commit")
  /\ UNCHANGED <<pc, result>>
  /\ BatchFrame

\* mutant of RunProtoGenFails: the error is dropped and the loop goes on
RunProtoGenFailsGoesOn ==
  /\ pc = "loop"
  /\ ret.next <= Len(ret.found)
  /\ ret' = Ran("fail")
  /\ result' = IF commit THEN IoError ELSE DiffFound(1)
  /\ UNCHANGED <<files, dirs, pc>>
  /\ BatchFrame

\* run_proto_gen(..)? returns Err before anything is written: the schema
\* compiler, the formatter or the diff failed, or a diff was found in a
\* validate run
RunProtoGenFails ==
  /\ pc = "loop"
  /\ ret.next <= Len(ret.found)
  /\ ret' = Ran("fail")
  /\ pc' = "returned"
  /\ \/ result' = IoError
     \/ ~commit /\ result' = DiffFound(1)
  /\ UNCHANGED <<files, dirs>>
  /\ BatchFrame

\* run_proto_gen(..)? returns Err from the commit: the output directory has
\* been removed, the candidate tree is copied or not, the index is not
\* written
RunProtoGenFailsInCommit ==
  /\ pc = "loop"
  /\ ret.next <= Len(ret.found)
  /\ commit
  /\ LET ws == ret.found[ret.next]
         cleaned == RemoveDirAllFiles(files, ws.output_dir)
     IN  /\ \/ files' = cleaned
            \/ files' = WriteFile(cleaned, GeneratedFile(ws), GeneratedText(ws))
         /\ dirs' = dirs \cup Ancestors(ws.output_dir) \cup {ws.output_dir}
  /\ ret' = Ran("partial")
  /\ pc' = "returned"
  /\ result' = IoError
  /\ BatchFrame

\* the loop is over: Ok(())
RunRecursivelyReturn ==
  /\ pc = "loop"
  /\ ret.next > Len(ret.found)
  /\ pc' = "returned"
  /\ result' = OkResult
  /\ UNCHANGED <<files, dirs, ret>>
  /\ BatchFrame

NextBatch ==
  \/ FindProtoDirs
  \/ FindProtoDirsFails
  \/ RunProtoGenNoDiff
  \/ RunProtoGenCommits
  \/ RunProtoGenFails
  \/ RunProtoGenFailsInCommit
  \/ RunRecursivelyReturn

SpecBatch == InitBatch /\ [][NextBatch]_vars

----------------------------------------------------------------------------
(* The two trees as they are on disk, by true relative path *)

TreeOf(root) == { Rel(p, root) : p \in { q \in DOMAIN files : IsUnder(q, root) } }

OldTree == TreeOf(OldRoot)
NewTree == TreeOf(NewRoot)

IndexExists == ModFile(OldRoot) \in DOMAIN files

CountNew == Cardinality(NewTree \ OldTree)
CountChanged ==
  Cardinality({ p \in NewTree \cap OldTree :
                  files[OldRoot \o p] # files[NewRoot \o p] })
CountRemoved == Cardinality(OldTree \ NewTree)
CountIndex ==
  IF IndexExists /\ files[ModFile(OldRoot)] = top_mod THEN 0 ELSE 1

TreesEqual ==
  /\ OldTree = NewTree
  /\ \A p \in NewTree : files[OldRoot \o p] = files[NewRoot \o p]

\* the committed output: the old directory with its files, and the index file
OldSide ==
  << Restrict(files, { p \in DOMAIN files :
                         IsUnder(p, OldRoot) \/ p = ModFile(OldRoot) }),
     { p \in dirs : IsUnder(p, OldRoot) \/ p = OldRoot } >>

----------------------------------------------------------------------------
(* Claims about the diff and commit engine *)

\* C1: when run_diff returns, the count is N + C + R + I: the files only in
\* the new tree, the files in both with different bytes, the files only in
\* the old tree, and 1 when the old index is missing or differs.
C1_DiffIsSum ==
  pc = "decide" => diff = CountNew + CountChanged + CountRemoved + CountIndex

\* C2: run_diff returns 0 exactly when both trees hold the same relative
\* paths with the same bytes and the old index exists and equals the new text.
C2_ZeroIffIdentical ==
  pc = "decide" => (diff = 0 <=> (TreesEqual /\ CountIndex = 0))

\* C3: with the old index file missing, the index step of run_diff does not
\* fail and adds exactly one; with both trees empty and the index missing,
\* run_diff does not fail and returns exactly 1.
C3_MissingIndexCountsOnce ==
  [][ /\ (pc = "loop" /\ new_iter = {} /\ ~IndexExists
            /\ ModFile(OldRoot) \notin dirs)
         => (pc' = "rest" /\ diff' = diff + 1)
      /\ (pc \in {"start", "loop", "rest"} /\ ~IndexExists
            /\ ModFile(OldRoot) \notin dirs /\ OldTree = {} /\ NewTree = {})
         => (pc' # "done" /\ (pc' = "decide" => diff' = 1))
    ]_vars

C3_Witness ==
  /\ pc = "decide"
  /\ ~IndexExists
  /\ OldTree = {}
  /\ NewTree = {}
  /\ diff = 1

\* C4: in the run that follows a successful commit, run_diff of the same
\* candidate tree and index text against the committed output returns 0.
C4_RediffAfterCommitIsZero ==
  (committed /\ pc = "decide") => diff = 0

\* C5: when recurse_copy_clean(new_root, old_root) has returned Ok, the old
\* root holds exactly the relative file paths of the new root, each with the
\* same bytes.
C5_CopyCleanMirrors ==
  pc = "write" => TreesEqual

C5_Witness ==
  /\ pc = "write"
  /\ NewTree # {}
  /\ OldTree = NewTree

\* C6: a step changes the committed output directory or its index file only
\* in the commit phase of a run whose run_diff returned a count above 0 with
\* commit requested.
C6_OutputChangesOnlyInCommit ==
  [][ OldSide' # OldSide
        => (commit /\ diff > 0 /\ pc \in {"clean", "copy", "write"}) ]_vars

C6_Witness ==
  /\ pc = "done"
  /\ commit
  /\ result.ok
  /\ diff > 0
  /\ IndexExists
  /\ files[ModFile(OldRoot)] = top_mod

\* C7: a validate run whose run_diff returned a count above 0 ends with the
\* error that carries the count and exit code 1; with a count of 0 it ends
\* with success and exit code 0.
C7_ValidateFailsOnDiff ==
  (pc = "done" /\ ~commit /\ result.why # "io")
    => /\ diff > 0 => (result = DiffFound(diff) /\ ExitCode(result) = 1)
       /\ diff = 0 => (result = OkResult /\ ExitCode(result) = 0)

C7_Witness ==
  /\ pc = "done"
  /\ ~commit
  /\ result = DiffFound(3)
  /\ ExitCode(result) = 1

----------------------------------------------------------------------------
(* The generated files as the schema compiler named them *)

NonEmptyNames == { n \in DOMAIN gen0 : gen0[n] # <<>> }

\* the name without its final extension
Nest(n) == rsplit_once(n, <<".">>).head

RECURSIVE Segments(_)
Segments(s) ==
  LET sp == split_once(s, <<".">>)
  IN  IF sp.found THEN << sp.head >> \o Segments(sp.tail) ELSE << s >>

PackageOf(n) == Segments(Nest(n))

IsPackageFile(n) ==
  /\ rsplit_once(n, <<".">>).found
  /\ \A i \in 1..Len(PackageOf(n)) : PackageOf(n)[i] # <<>>

\* every non-empty file is named after a package, no two after the same one
ValidDistinct ==
  /\ \A n \in NonEmptyNames : IsPackageFile(n)
  /\ \A a, b \in NonEmptyNames : a # b => Nest(a) # Nest(b)

FlatPath(n) == NewRoot \o << n >>

\* <temp>/s1/.../s(k-1)/<leaf>.rs
PathAt(segs, leaf) ==
  NewRoot \o SubSeq(segs, 1, Len(segs) - 1) \o << leaf \o RsExt >>

SegmentPath(n) == PathAt(PackageOf(n), FileName(PackageOf(n)))

ProperPath(n) == PathAt(PackageOf(n), proper_file_name(FileName(PackageOf(n))))

\* the modules that only hold other modules
PureBranches ==
  UNION { { SubSeq(PackageOf(n), 1, j) : j \in 1..Len(PackageOf(n)) } :
            n \in NonEmptyNames }
    \ { PackageOf(n) : n \in NonEmptyNames }

BranchIndex(b) == PathAt(b, FileName(b))

ProperPathsDistinct ==
  /\ \A a, b \in NonEmptyNames : a # b => ProperPath(a) # ProperPath(b)
  /\ \A a \in NonEmptyNames : \A b \in PureBranches : ProperPath(a) # BranchIndex(b)

\* C8 as stated: after clean_up_file_structure every package s1.s2...sk has
\* its content in the file <temp>/s1/.../s(k-1)/sk.rs, the temp directory
\* holds nothing but these files and the index files of the modules above
\* them, and for k > 1 the flat dotted file is gone.
C8_PackagesAtSegmentPaths ==
  ValidDistinct =>
    /\ pc # "panic"
    /\ result = NoResult
    /\ pc = "generated" =>
         /\ \A n \in NonEmptyNames :
              /\ SegmentPath(n) \in DOMAIN files
              /\ IsSuffix(hide_doctests(gen0[n]), files[SegmentPath(n)])
              /\ Len(PackageOf(n)) > 1 => FlatPath(n) \notin DOMAIN files
         /\ \A f \in DOMAIN files :
              \/ \E n \in NonEmptyNames : f = SegmentPath(n)
              \/ \E b \in PureBranches : f = BranchIndex(b)

\* C8 amended: the file of package s1.s2...sk is <temp>/s1/.../s(k-1)/n.rs
\* where n is sk without a leading r#, provided no two packages and no
\* package and parent module get the same file that way.
C8_PackagesAtProperPaths ==
  (ValidDistinct /\ ProperPathsDistinct) =>
    /\ pc # "panic"
    /\ result = NoResult
    /\ pc = "generated" =>
         /\ \A n \in NonEmptyNames :
              /\ ProperPath(n) \in DOMAIN files
              /\ IsSuffix(hide_doctests(gen0[n]), files[ProperPath(n)])
              /\ Len(PackageOf(n)) > 1 => FlatPath(n) \notin DOMAIN files
         /\ \A f \in DOMAIN files :
              \/ \E n \in NonEmptyNames : f = ProperPath(n)
              \/ \E b \in PureBranches : f = BranchIndex(b)

NameRawS == <<"r", "#", "s", ".", "r", "s">>
NamePQU == <<"p", ".", "q", ".", "u", ".", "r", "s">>

C8_Witness ==
  /\ pc = "generated"
  /\ ValidDistinct
  /\ ProperPathsDistinct
  /\ {NameRawS, NamePQU} \subseteq NonEmptyNames
  /\ Cardinality(NonEmptyNames) = 3

NameP == <<"p", ".", "r", "s">>
NamePQ == <<"p", ".", "q", ".", "r", "s">>

\* the modules right below a module, by name
KidsOf(segs) ==
  { SubSeq(PackageOf(n), 1, Len(segs) + 1) :
      n \in { m \in NonEmptyNames :
                /\ Len(PackageOf(m)) > Len(segs)
                /\ SubSeq(PackageOf(m), 1, Len(segs)) = segs } }

\* the re-export lines of a module, in the order of the names
ExposeOf(segs) ==
  LET sorted == SortByName(KidsOf(segs))
  IN  Concat([i \in 1..Len(sorted) |-> PubMod(FileName(sorted[i]))])

HeaderText == prepend_header(gen_opts.prepend_header, <<>>)

\* C9: with non-empty files for package p and package p.q, in whichever order
\* the two are pushed there is no error and no panic, both end up in the
\* tree, and the one file p.rs holds the re-export lines of p's children (q
\* among them), a blank line and then p's own content, next to p/q.rs.
C9_ParentAndChildMerge ==
  (ValidDistinct /\ {NameP, NamePQ} \subseteq NonEmptyNames) =>
    /\ pc # "panic"
    /\ result = NoResult
    /\ (FlatPath(NameP) \notin rd /\ FlatPath(NamePQ) \notin rd) =>
         /\ {PackageOf(NameP), PackageOf(NamePQ)} \subseteq DOMAIN tree
         /\ tree[PackageOf(NameP)].file = Some(FlatPath(NameP))
         /\ tree[PackageOf(NamePQ)].file = Some(FlatPath(NamePQ))
    /\ pc = "generated" =>
         /\ FindFrom(ExposeOf(PackageOf(NameP)), PubMod(<<"q">>), 1) # 0
         /\ files[SegmentPath(NameP)] =
              HeaderText \o HeaderText \o ExposeOf(PackageOf(NameP)) \o <<"\n">>
                \o hide_doctests(gen0[NameP])
         /\ SegmentPath(NamePQ) \in DOMAIN files
         /\ IsSuffix(hide_doctests(gen0[NamePQ]), files[SegmentPath(NamePQ)])
         /\ FlatPath(NamePQ) \notin DOMAIN files

C9_Witness ==
  /\ pc = "generated"
  /\ ValidDistinct
  /\ {NameP, NamePQ} \subseteq NonEmptyNames
  /\ gen_opts.prepend_header # None
  /\ SegmentPath(NamePQ) \in DOMAIN files

\* C10: once two non-empty files named after the same package have both been
\* registered, the run has aborted; it neither goes on reading the directory
\* nor completes.
C10_DuplicateLeafIsFatal ==
  \A a, b \in NonEmptyNames :
    ( /\ a # b
      /\ IsPackageFile(a)
      /\ Nest(a) = Nest(b)
      /\ FlatPath(a) \notin rd
      /\ FlatPath(b) \notin rd ) => pc \notin {"read_dir", "generated"}

----------------------------------------------------------------------------
EmptyNames == { n \in DOMAIN gen0 : gen0[n] = <<>> }

\* the modules named by the non-empty files read so far
NodesOf(names) ==
  UNION { { SubSeq(PackageOf(n), 1, j) : j \in 1..Len(PackageOf(n)) } : n \in names }

\* C11: a zero-byte file of the temp directory is deleted when it is read and
\* never registered: no node of the tree holds it, the tree has only the
\* modules of the non-empty files, and after clean-up the files in the temp
\* directory and the lines of the top-level index are those the non-empty
\* files alone give.
C11_EmptyFilesLeaveNoTrace ==
  /\ \A n \in EmptyNames :
       /\ \A k \in DOMAIN tree : tree[k].file # Some(FlatPath(n))
       /\ (pc = "read_dir" /\ FlatPath(n) \notin rd) => FlatPath(n) \notin DOMAIN files
  /\ DOMAIN tree \subseteq NodesOf({ n \in NonEmptyNames : IsPackageFile(n) })
  /\ pc = "generated" =>
       /\ \A f \in DOMAIN files :
            \/ \E n \in NonEmptyNames : f = ProperPath(n)
            \/ \E b \in PureBranches : f = BranchIndex(b)
       /\ top_mod = TopLevelHead(gen_opts) \o ExposeOf(<<>>)

C11_Witness ==
  /\ pc = "generated"
  /\ NameP \in EmptyNames
  /\ NameRawS \in EmptyNames
  /\ NamePQ \in NonEmptyNames

----------------------------------------------------------------------------
(* Claims about path_from_starts_with *)

\* the directories R above the file whose final component is the marker
RootsAbove(root, path) == { i \in 1..(Len(path) - 1) : path[i] = root }

\* C12: for a root directory R whose final component is r and a file at
\* R/p1/.../pn, path_from_starts_with(r, file) is p1/.../pn, whatever the
\* names of the file and of the directories are; in gen.rs and in lib.rs.
C12_RelativePathBelowRoot ==
  pc \in {"returned", "returned_lib"} =>
    \A i \in RootsAbove(arg.root, arg.path) :
      ret = [ok |-> TRUE, path |-> SubSeq(arg.path, i + 1, Len(arg.path))]

NoMarker(root, path) == \A i \in 1..Len(path) : ~StartsWith(path[i], root)

----------------------------------------------------------------------------
\* C14: when old_root does not exist, run_diff does not fail and every file
\* under new_root counts exactly once as new: the count returned is the
\* number of files under new_root, plus one when the old index is missing or
\* differs.
C14_MissingOldRootCountsNew ==
  OldRoot \notin dirs =>
    /\ pc # "done"
    /\ result = NoResult
    /\ pc = "decide" => diff = Cardinality(NewTree) + CountIndex

----------------------------------------------------------------------------
(* Claims about hide_doctests *)

\* the line is one that hide_doctests takes for an indented example
IsIndentedDoc(line) ==
  LET doc == split_once(line, DocMarker)
  IN  doc.found /\ Len(doc.tail) >= 4 /\ \A i \in 1..4 : IsWhitespace(doc.tail[i])

IsFenceLine(line) == EndsWith(line, Fence)

\* no line ends in a fence and no documentation line is indented by four
NothingToHide(a) ==
  \A i \in 1..Len(a.lines) : ~IsFenceLine(a.lines[i]) /\ ~IsIndentedDoc(a.lines[i])

\* every line of the text ends with a line feed, none with a carriage return
\* before it
LineFeedTerminated(a) == a.lines = <<>> \/ (a.last /\ a.eol = <<"\n">>)

\* C15 as stated: hide_doctests returns its input unchanged when no line
\* ends in a triple backtick and no documentation-comment line has four or
\* more whitespace characters after the comment marker.
C15_IdentityWithoutExamples ==
  (pc = "hidden" /\ NothingToHide(arg)) => ret = ContentOf(arg)

\* C15 amended: the same, for texts in which every line ends with a line
\* feed that has no carriage return before it.
C15_IdentityOnTerminatedLines ==
  (pc = "hidden" /\ NothingToHide(arg) /\ LineFeedTerminated(arg))
    => ret = ContentOf(arg)

C15_Witness ==
  /\ pc = "hidden"
  /\ NothingToHide(arg)
  /\ LineFeedTerminated(arg)
  /\ Len(arg.lines) = 3
  /\ arg.lines[2] = <<"/", "/", "/", " ", " ", " ", "x">>
  /\ ret = ContentOf(arg)

----------------------------------------------------------------------------
\* the files below the temp directory, by relative path
TempNow == [ p \in TreeOf(NewRoot) |-> files[NewRoot \o p] ]

\* C16: after run_ws has returned, a temp directory given by the caller still
\* exists and holds the materialized files, and a temp directory that run_ws
\* created itself is gone with everything in it, whether the run returned Ok
\* or an error.
C16_TempDirAfterReturn ==
  pc = "returned" =>
    IF arg.tmp_dir # None
    THEN /\ NewRoot \in dirs
         /\ \/ TempNow = arg.gen
            \/ DOMAIN TempNow = {} /\ result = IoError
    ELSE /\ NewRoot \notin dirs
         /\ \A q \in (DOMAIN files) \cup dirs : ~IsUnder(q, NewRoot)

C16_Witness ==
  /\ pc = "returned"
  /\ arg.tmp_dir = None
  /\ DOMAIN arg.gen # {}
  /\ result.why = "diff"
  /\ NewRoot \notin dirs

----------------------------------------------------------------------------
(* Claims about KvValueParser *)

Colons(value) == { i \in 1..Len(value) : value[i] = ":" }

\* k is the text before and v the text after the ':' at position i
SplitsAt(value, i, r) ==
  /\ r.k = SubSeq(value, 1, i - 1)
  /\ r.v = SubSeq(value, i + 1, Len(value))

\* C17 as stated: parse_ref returns Ok((k, v)) exactly when the value is
\* valid UTF-8 and contains exactly one ':', k being the text before it and
\* v the text after it; every other value is rejected with a
\* ValueValidation error and never reaches generation.
C17_ExactlyOneColon ==
  pc # "call" =>
    IF arg.utf8 /\ Cardinality(Colons(arg.value)) = 1
    THEN ret.ok /\ \A i \in Colons(arg.value) : SplitsAt(arg.value, i, ret)
    ELSE ret = KvError /\ pc = "rejected"

\* C17 amended: Ok((k, v)) exactly when the value is valid UTF-8 and
\* contains at least one ':', k being the text before the first ':' and v
\* all the text after it; every other value is rejected with a
\* ValueValidation error and never reaches generation.
C17_AtLeastOneColon ==
  pc # "call" =>
    IF arg.utf8 /\ Colons(arg.value) # {}
    THEN /\ ret.ok
         /\ \E i \in Colons(arg.value) :
              /\ \A j \in Colons(arg.value) : i <= j
              /\ SplitsAt(arg.value, i, ret)
    ELSE ret = KvError /\ pc = "rejected"

C17_Witness ==
  /\ pc = "generation"
  /\ arg.value = <<"k", ":", "v", ":">>
  /\ ret.k = <<"k">>
  /\ ret.v = <<"v", ":">>

----------------------------------------------------------------------------
\* C18: in lib.rs, with non-empty files for package p and package p.q, in
\* whichever order the two are pushed no error is returned, and once both
\* are pushed the tree holds p's own file and the child q with its file.
C18_LibParentAndChildMerge ==
  (ValidDistinct /\ {NameP, NamePQ} \subseteq NonEmptyNames) =>
    /\ result = NoResult
    /\ (FlatPath(NameP) \notin rd /\ FlatPath(NamePQ) \notin rd) =>
         /\ {PackageOf(NameP), PackageOf(NamePQ)} \subseteq DOMAIN tree
         /\ \E k \in DOMAIN tree : tree[k].file = Some(FlatPath(NameP))
         /\ tree[PackageOf(NamePQ)].file = Some(FlatPath(NamePQ))

----------------------------------------------------------------------------
(* Claims about the index texts *)

PubModHead == <<"p", "u", "b", " ", "m", "o", "d", " ">>

IsPubModLine(line) == StartsWith(line, PubModHead) /\ EndsWith(line, <<";">>)

\* the names of the `pub mod <name>;` lines of a text, in their order
RECURSIVE PubModNames(_)
PubModNames(lines) ==
  IF lines = <<>> THEN <<>>
  ELSE (IF IsPubModLine(Head(lines))
        THEN << SubSeq(Head(lines), Len(PubModHead) + 1, Len(Head(lines)) - 1) >>
        ELSE <<>>) \o PubModNames(Tail(lines))

\* the file that holds the index of a module with children
IndexFileOf(b) ==
  IF b \in { PackageOf(n) : n \in NonEmptyNames }
  THEN PathAt(b, proper_file_name(FileName(b)))
  ELSE BranchIndex(b)

\* the text lists each child of module b once, in ascending byte order
IndexListsChildren(text, b) ==
  LET names == PubModNames(Lines(text))
  IN  /\ \A i, j \in 1..Len(names) : i < j => StrLess(names[i], names[j])
      /\ { names[i] : i \in 1..Len(names) } = { FileName(k) : k \in KidsOf(b) }

\* C19: after clean-up the top-level index and the index of every module
\* with children hold exactly one `pub mod <name>;` line per child, in
\* ascending byte-wise order of the names, in whatever order the files were
\* read and pushed.
C19_IndexLinesSorted ==
  pc = "generated" =>
    /\ IndexListsChildren(top_mod, <<>>)
    /\ \A b \in NodesOf(NonEmptyNames) :
         KidsOf(b) # {} =>
           /\ IndexFileOf(b) \in DOMAIN files
           /\ IndexListsChildren(files[IndexFileOf(b)], b)

NamePB == <<"p", ".", "b", ".", "r", "s">>

C19_Witness ==
  /\ pc = "generated"
  /\ NonEmptyNames = {NamePB, NamePQ, NameRawS}
  /\ PubModNames(Lines(top_mod)) = << <<"p">>, <<"r", "#", "s">> >>
  /\ PubModNames(Lines(files[IndexFileOf(<< <<"p">> >>)])) = << <<"b">>, <<"q">> >>

----------------------------------------------------------------------------
(* What hide_doctests is to write, line by line, told from the lines alone *)

FencesBefore(ls, i) == Cardinality({ j \in 1..(i - 1) : IsFenceLine(ls[j]) })

OpensBlock(ls, i) == IsFenceLine(ls[i]) /\ FencesBefore(ls, i) % 2 = 0
ClosesBlock(ls, i) == IsFenceLine(ls[i]) /\ FencesBefore(ls, i) % 2 = 1

\* the line is outside every fenced block, or is the line that closes one
OutsideBlock(ls, i) ==
  \/ ~IsFenceLine(ls[i]) /\ FencesBefore(ls, i) % 2 = 0
  \/ ClosesBlock(ls, i)

\* the nearest earlier line outside the fenced blocks, 0 when there is none
PrevOutside(ls, i) ==
  LET before == { j \in 1..(i - 1) : OutsideBlock(ls, j) }
  IN  IF before = {} THEN 0 ELSE CHOOSE j \in before : \A k \in before : k <= j

\* the line follows an indented documentation line
AfterIndented(ls, i) ==
  PrevOutside(ls, i) # 0 /\ IsIndentedDoc(ls[PrevOutside(ls, i)])

Injected(ls, i) ==
  IF ~OutsideBlock(ls, i) THEN <<>>
  ELSE IF IsIndentedDoc(ls[i]) /\ ~AfterIndented(ls, i) THEN IgnoreOpen
  ELSE IF ~IsIndentedDoc(ls[i]) /\ AfterIndented(ls, i) THEN IgnoreClose
  ELSE <<>>

ExpectedLine(ls, i) ==
  Injected(ls, i) \o ls[i]
    \o (IF OpensBlock(ls, i) THEN IgnoreWord ELSE <<>>) \o <<"\n">>

ExpectedHidden(ls) == Concat([i \in 1..Len(ls) |-> ExpectedLine(ls, i)])

\* C20: outside a fenced block the opening fence line is written right
\* before the first line of a run of documentation lines indented by four or
\* more whitespace characters, nothing is written before the other lines of
\* the run, and the closing fence line is written right before the first
\* later line that is not such a line; nothing else is injected.
C20_IndentedRunIsFenced ==
  pc = "hidden" => ret = ExpectedHidden(arg.lines)

BodyDoc == <<"/", "/", "/", " ", "x">>
BodyIndented == <<"/", "/", "/", " ", " ", " ", " ", "x">>

C20_Witness ==
  /\ pc = "hidden"
  /\ arg.lines = << BodyDoc, BodyIndented, BodyIndented, <<"x">> >>
  /\ ret = BodyDoc \o <<"\n">> \o IgnoreOpen \o BodyIndented \o <<"\n">>
             \o BodyIndented \o <<"\n">> \o IgnoreClose \o <<"x", "\n">>

----------------------------------------------------------------------------
(* hide_doctests followed line by line *)

\* the state of the loop of hide_doctests after the first i lines
HideAfter(ls, i) ==
  HideLines([block |-> FALSE, code |-> FALSE, out |-> <<>>], SubSeq(ls, 1, i))

\* what the i-th iteration of the loop appends to new_content
Written(ls, i) ==
  LET before == HideAfter(ls, i - 1).out
      after == HideAfter(ls, i).out
  IN  SubSeq(after, Len(before) + 1, Len(after))

\* the part of it that comes before the line itself
Prelude(ls, i) ==
  LET w == Written(ls, i)
      own == Len(ls[i]) + 1 + (IF OpensBlock(ls, i) THEN Len(IgnoreWord) ELSE 0)
  IN  SubSeq(w, 1, Len(w) - own)

\* the line is inside a fenced block and is neither its first nor its last
StrictlyInside(ls, i) == ~IsFenceLine(ls[i]) /\ FencesBefore(ls, i) % 2 = 1

\* C21: each line ending in a triple backtick toggles the fenced-block
\* flag; the line that opens a block is written with the word ignore
\* appended, the line that closes it is written as it is, and for a line
\* strictly inside a block nothing but the line is written.
C21_FencesToggle ==
  pc = "hidden" =>
    /\ ret = Concat([i \in 1..Len(arg.lines) |-> Written(arg.lines, i)])
    /\ \A i \in 1..Len(arg.lines) :
         LET ls == arg.lines
             w == Written(ls, i)
         IN  /\ HideAfter(ls, i).block
                  = (IF IsFenceLine(ls[i]) THEN ~HideAfter(ls, i - 1).block
                     ELSE HideAfter(ls, i - 1).block)
             /\ OpensBlock(ls, i) => w = ls[i] \o IgnoreWord \o <<"\n">>
             /\ ClosesBlock(ls, i) => EndsWith(w, ls[i] \o <<"\n">>)
             /\ StrictlyInside(ls, i) => w = ls[i] \o <<"\n">>

BodyFence == <<"/", "/", "/", " ", Tick, Tick, Tick>>

C21_Witness ==
  /\ pc = "hidden"
  /\ arg.lines = << BodyFence, BodyIndented, BodyFence, BodyFence >>
  /\ ret = BodyFence \o IgnoreWord \o <<"\n">> \o BodyIndented \o <<"\n">>
             \o BodyFence \o <<"\n">> \o BodyFence \o IgnoreWord \o <<"\n">>

----------------------------------------------------------------------------
(* Claims about the file of a module that has content and children *)

\* the index text dump_to_disk builds for module segs: the header and the
\* re-export lines
IndexText(segs) == HeaderText \o ExposeOf(segs)

\* module p has content of its own and at least one child
Merged == NameP \in NonEmptyNames /\ KidsOf(PackageOf(NameP)) # {}

\* C22: when p.rs is merged with the index text of p, the file written ends
\* with the index text as it was built, a blank line and the sanitized
\* content of p alone, whatever the header.
C22_IndexTextUntouched ==
  (pc = "generated" /\ Merged) =>
    IsSuffix(IndexText(PackageOf(NameP)) \o <<"\n">> \o hide_doctests(gen0[NameP]),
             files[SegmentPath(NameP)])

----------------------------------------------------------------------------
(* Claims about the formatting step *)

FormatterFailed == ret \in {ExitFileFailed, ExitIndexFailed}

\* C23: once the formatter has exited with an error, on a file of the temp
\* tree or on the top-level index text, run_generation has returned the
\* error: the diff is not computed and no step of the commit is taken.
C23_FormatterFailureIsFatal ==
  FormatterFailed =>
    /\ pc = "done"
    /\ result = IoError
    /\ orig_files = {} /\ new_iter = {} /\ diff = 0 /\ toCopy = {}

\* the same for the files of the temp tree alone
C23_FileFormatterFailureIsFatal ==
  ret = ExitFileFailed =>
    /\ pc = "done"
    /\ result = IoError
    /\ orig_files = {} /\ new_iter = {} /\ diff = 0 /\ toCopy = {}

----------------------------------------------------------------------------
(* Claims about the environment *)

\* generate_to_tmp has returned, with the index text or with an error
GenerateReturned == pc \in {"generated", "done"}

\* C24: after generate_to_tmp has returned, whether the schema compiler
\* succeeded or failed, OUT_DIR has the value it had before the call, or is
\* unset if it was unset before.
C24_OutDirRestored ==
  GenerateReturned => ret = arg.out_dir

\* the same when the schema compiler succeeded and the value before the
\* call, if there was one, was Unicode
C24_OutDirRestoredAfterSuccess ==
  (GenerateReturned /\ files # <<>> /\ arg.out_dir # EnvNotUnicode)
    => ret = arg.out_dir

----------------------------------------------------------------------------
(* Claims about the recursive strategy *)

\* the runs made so far that wrote into the output directory of workspace ws
WritersOf(ws) ==
  { i \in 1..Len(ret.ran) :
      /\ ret.found[i].output_dir = ws.output_dir
      /\ ret.ran[i].outcome \in {"commit", "partial"} }

\* the run of the i-th workspace has committed and no later run wrote into
\* the same output directory
CommitStands(i) ==
  /\ ret.ran[i].outcome = "commit"
  /\ \A j \in WritersOf(ret.found[i]) : j <= i

DirsBelowBase == { d \in dirs : d = arg.base \/ IsUnder(d, arg.base) }

\* the schema files right in directory d
ProtoFilesIn(d) ==
  { p \in DOMAIN files : /\ Len(p) = Len(d) + 1
                         /\ Parent(p) = d
                         /\ EndsWith(FileName(p), DotProto) }

ProtoDirsFound == { ret.found[i].proto_dir : i \in 1..Len(ret.found) }

NoneTwice ==
  \A i, j \in 1..Len(ret.found) :
    i # j => ret.found[i].proto_dir # ret.found[j].proto_dir

\* C30 as stated: find_proto_dirs(base) returns exactly one workspace for
\* every directory at or below base that directly holds a schema file,
\* whatever lies beside the schema files.
C30_EveryProtoDirOnce ==
  (pc = "loop" /\ ret.next = 1) =>
    /\ ProtoDirsFound = { d \in DirsBelowBase : ProtoFilesIn(d) # {} }
    /\ NoneTwice

\* the walk enters the directory: it is the base directory, or its parent
\* is entered and holds no schema file whose name sorts before its name
RECURSIVE Entered(_)
Entered(d) ==
  \/ d = arg.base
  \/ /\ IsUnder(d, arg.base)
     /\ Entered(Parent(d))
     /\ \A p \in ProtoFilesIn(Parent(d)) : StrLess(FileName(d), FileName(p))

\* C30 amended: exactly one workspace for every directory with a schema
\* file that the walk enters; a directory is not entered when a schema
\* file beside it, or beside one of the directories above it, has a name
\* that sorts before the name of the directory.
C30_EveryEnteredProtoDirOnce ==
  (pc = "loop" /\ ret.next = 1) =>
    /\ ProtoDirsFound = { d \in DirsBelowBase : Entered(d) /\ ProtoFilesIn(d) # {} }
    /\ NoneTwice
    /\ \A i \in 1..Len(ret.found) :
         { ret.found[i].proto_files[k] : k \in 1..Len(ret.found[i].proto_files) }
           = ProtoFilesIn(ret.found[i].proto_dir)

\* two schema files in r/p, a directory of r/p that sorts before them and
\* holds a schema file: two workspaces
C30_Witness ==
  /\ pc = "loop"
  /\ ret.next = 1
  /\ DOMAIN files = { Base \o << <<"p">>, NmAProto >>,
                      Base \o << <<"p">>, NmBProto >>,
                      Base \o << <<"p">>, <<"a">>, NmCProto >> }
  /\ ProtoDirsFound = { Base \o << <<"p">> >>, Base \o << <<"p">>, <<"a">> >> }
  /\ Len(ret.found) = 2

----------------------------------------------------------------------------
(* Claims about the order of the commit *)

\* the top-level index file as it is, None when it does not exist
IndexNow ==
  IF ModFile(OldRoot) \in DOMAIN files THEN Some(files[ModFile(OldRoot)]) ELSE None

\* every file of the candidate tree has its copy below the old root
AllCopied ==
  \A e \in { p \in DOMAIN files : IsUnder(p, NewRoot) } :
    DestOf(e) \in DOMAIN files /\ files[DestOf(e)] = files[e]

\* the files below the old root
OldFiles == Restrict(files, { p \in DOMAIN files : IsUnder(p, OldRoot) })

\* C26: a step writes the top-level index file only when the whole
\* candidate tree has been copied; a step in which the removal of the old
\* destination or a copy fails ends the run with that error, leaves the
\* index file as it was and, in the copy, leaves every file copied so far
\* where it is.
C26_IndexWrittenAfterCopy ==
  [][ /\ IndexNow' # IndexNow
           => (pc = "write" /\ toCopy = {} /\ AllCopied /\ IndexNow' = Some(top_mod))
      /\ (pc \in {"clean", "copy"} /\ pc' = "done")
           => /\ result' = IoError
              /\ IndexNow' = IndexNow
              /\ pc = "copy" => OldFiles' = OldFiles
    ]_vars

\* a copy has failed after one of two files was copied: the copy is there,
\* the index file is not the new text
C26_Witness ==
  /\ pc = "done"
  /\ result = IoError
  /\ commit
  /\ diff > 0
  /\ toCopy # {}
  /\ \E e \in DOMAIN files :
       /\ IsUnder(e, NewRoot)
       /\ e \notin toCopy
       /\ DestOf(e) \in DOMAIN files
       /\ files[DestOf(e)] = files[e]
  /\ IndexNow # Some(top_mod)

----------------------------------------------------------------------------
(* Claims about the header *)

\* how often the text begins with the header, counted from the start
RECURSIVE HeaderCopies(_, _)
HeaderCopies(text, hdr) ==
  IF hdr # <<>> /\ StartsWith(text, hdr)
  THEN 1 + HeaderCopies(SubSeq(text, Len(hdr) + 1, Len(text)), hdr)
  ELSE 0

\* the text begins with one copy of the header and not with two; without a
\* header, the text holds none of the headers of the model
OneHeader(text) ==
  IF gen_opts.prepend_header = None
  THEN \A h \in Headers \ {None} : FindFrom(text, h[1], 1) = 0
  ELSE HeaderCopies(text, gen_opts.prepend_header[1]) = 1

\* the files clean-up has written: one for every package with content, one
\* for every module that only holds other modules
WrittenFiles ==
  { ProperPath(n) : n \in NonEmptyNames } \cup { BranchIndex(b) : b \in PureBranches }

\* the module has content and children
MergedPackages ==
  { PackageOf(n) : n \in { m \in NonEmptyNames : KidsOf(PackageOf(m)) # {} } }

MergedFiles == { PathAt(b, proper_file_name(FileName(b))) : b \in MergedPackages }

\* C27: every file clean-up has written (a pure leaf, the index of a pure
\* branch, a leaf merged with the index text of its branch) and the
\* top-level index text begin with exactly one copy of the header when one
\* is supplied, and hold no header when none is supplied.
C27_ExactlyOneHeader ==
  (pc = "generated" /\ ValidDistinct /\ ProperPathsDistinct) =>
    /\ OneHeader(top_mod)
    /\ \A f \in WrittenFiles : f \in DOMAIN files /\ OneHeader(files[f])

\* the same without the files of modules that have content and children
C27_ExactlyOneHeaderUnmerged ==
  (pc = "generated" /\ ValidDistinct /\ ProperPathsDistinct) =>
    /\ OneHeader(top_mod)
    /\ \A f \in WrittenFiles \ MergedFiles : f \in DOMAIN files /\ OneHeader(files[f])

\* in the file of a module with content and children the header comes twice
C27_MergedFileHasTwoHeaders ==
  (pc = "generated" /\ ValidDistinct /\ ProperPathsDistinct
     /\ gen_opts.prepend_header # None) =>
    \A f \in MergedFiles :
      HeaderCopies(files[f], gen_opts.prepend_header[1]) = 2

----------------------------------------------------------------------------
(* Claims about the fence lines hide_doctests injects *)

InjectsOpen(ls, i) == Prelude(ls, i) = IgnoreOpen
InjectsClose(ls, i) == Prelude(ls, i) = IgnoreClose

\* every injected opening fence is followed by an injected closing fence
\* with no injected opening fence between the two
Balanced(ls) ==
  \A i \in 1..Len(ls) :
    InjectsOpen(ls, i) =>
      \E j \in (i + 1)..Len(ls) :
        /\ InjectsClose(ls, j)
        /\ \A k \in (i + 1)..(j - 1) : ~InjectsOpen(ls, k)

\* C28: for every input text the fence lines hide_doctests injects are
\* balanced, also when the input ends inside an indented example or a
\* fenced block opens inside one.
C28_InjectedFencesBalanced ==
  pc = "hidden" => Balanced(arg.lines)

\* the same for the texts after whose last line in_potentially_hostile_code
\* is not set
C28_BalancedWhenExampleEnds ==
  (pc = "hidden" /\ ~HideAfter(arg.lines, Len(arg.lines)).code)
    => Balanced(arg.lines)

\* what the i-th iteration writes after the injected fence line, if any
OwnLine(ls, i) ==
  LET w == Written(ls, i)
  IN  SubSeq(w, Len(Prelude(ls, i)) + 1, Len(w))

\* C29: hide_doctests drops, reorders and rewrites no line: its output is,
\* line after line of the input, at most one injected fence line and then
\* the line itself with a line feed, with the word ignore between the two
\* only for a line that opens a fenced block.
C29_LinesPassThrough ==
  pc = "hidden" =>
    /\ ret = Concat([i \in 1..Len(arg.lines) |-> Written(arg.lines, i)])
    /\ \A i \in 1..Len(arg.lines) :
         LET ls == arg.lines
         IN  /\ Prelude(ls, i) \in {<<>>, IgnoreOpen, IgnoreClose}
             /\ Prelude(ls, i) \o OwnLine(ls, i) = Written(ls, i)
             /\ OwnLine(ls, i) = ls[i] \o (IF OpensBlock(ls, i) THEN IgnoreWord ELSE <<>>)
                                   \o <<"\n">>

\* lines ending in carriage return and line feed, the last one without
\* line ending, an empty line among them
C29_Witness ==
  /\ pc = "hidden"
  /\ arg.eol = <<"\r", "\n">>
  /\ ~arg.last
  /\ arg.lines = << BodyIndented, <<>>, BodyFence, <<"x">> >>
  /\ ret = IgnoreOpen \o BodyIndented \o <<"\n">> \o IgnoreClose \o <<"\n">>
             \o BodyFence \o IgnoreWord \o <<"\n">> \o <<"x", "\n">>

====
